---- MODULE Spec2Model ----
(***************************************************************************)
(* A model of the GBA emulator core: the CPU register file and status      *)
(* word, the interrupt gate and trigger sequence, the memory bus and the   *)
(* scheduler loop of main().                                               *)
(*                                                                         *)
(* A u32 is a pair <<hi, lo>> of 16-bit halves (TLC integers are 32-bit    *)
(* signed, so a u32 does not fit one integer).  u16 and u8 values are      *)
(* plain naturals.  The struct CPU is the record held by the variable cpu; *)
(* a method fn f(&mut self, x) is an operator f(c, x) giving the CPU after *)
(* the call.  A Rust panic!/todo!/unreachable! raised inside a method      *)
(* sets the field unwound: the process is gone.                            *)
(***************************************************************************)
EXTENDS Integers, Sequences, FiniteSets, TLC

VARIABLES
    cpu,            \* struct CPU (cpu.rs:20-58)
    dbg,            \* struct Debugger: opcode, free_run, paused, lockstep, instruction_counter
    timer_scanline, \* main.rs:172
    dt_cycles,      \* main.rs:173
    lcd_pause,      \* main.rs:174
    previous_pc,    \* main.rs:175
    opcode,         \* the word fetched at the top of the loop, main.rs:180
    program_counter, \* the PC read at the top of the loop, main.rs:179
    events,         \* key presses and window events delivered so far
    pc,             \* position of the emulator thread inside the loop body
    rounds,         \* loop iterations begun (calls made, where a test drives the CPU)
    game,           \* the frame-ready channel (main.rs:138): messages sent, in flight, received
    shared,         \* palette, video and object memory behind their mutexes, and the two
                    \* threads' positions in an access to them (cpu.rs:31-33, main.rs:140-162)
    op              \* the last step: its name, its arguments, the CPU before it

vars == <<cpu, dbg, timer_scanline, dt_cycles, lcd_pause, previous_pc, opcode,
          program_counter, events, pc, rounds, game, shared, op>>

sched_vars == <<dbg, timer_scanline, dt_cycles, lcd_pause, previous_pc, opcode,
                program_counter, events, pc, game, shared>>

\* mpsc::channel() before any send (main.rs:138)
channel_new == [sent |-> 0, channel |-> <<>>, received |-> <<>>]

Buffers == {"palette", "vram", "oam"}

\* the three Arc<Mutex<Vec<u8>>> of main (zero-filled, their first four
\* bytes followed), no guard alive, both threads outside any access
shared_new ==
    [owner |-> [b \in Buffers |-> "none"],
     data |-> [b \in Buffers |-> [i \in 0..3 |-> 0]],
     bus |-> [at |-> "idle", kind |-> "none", buffer |-> "none", todo |-> <<>>, val |-> <<>>],
     win |-> [at |-> "update", locks |-> <<>>, frame |-> <<>>]]

-----------------------------------------------------------------------------
(* Fixed-width arithmetic.                                                 *)

RECURSIVE BitAnd(_, _)
BitAnd(x, y) ==
    IF x = 0 \/ y = 0 THEN 0
    ELSE (x % 2) * (y % 2) + 2 * BitAnd(x \div 2, y \div 2)

BitOr(x, y) == x + y - BitAnd(x, y)

BitXor(x, y) == x + y - 2 * BitAnd(x, y)

BitNot16(x) == 65535 - x

W(hi, lo) == <<hi, lo>>

U32(n) == <<n \div 65536, n % 65536>>

\* the integer a u32 below 2^31 stands for (every bus address after masking)
AsInt(w) == w[1] * 65536 + w[2]

And32(a, b) == <<BitAnd(a[1], b[1]), BitAnd(a[2], b[2])>>

Or32(a, b) == <<BitOr(a[1], b[1]), BitOr(a[2], b[2])>>

Xor32(a, b) == <<BitXor(a[1], b[1]), BitXor(a[2], b[2])>>

Not32(a) == <<BitNot16(a[1]), BitNot16(a[2])>>

\* u32 addition modulo 2^32, with the carry out
Add32c(a, b) ==
    LET lo == a[2] + b[2]
        hi == a[1] + b[1] + (lo \div 65536)
    IN  [val |-> <<hi % 65536, lo % 65536>>, carry |-> hi >= 65536]

Add32(a, b) == Add32c(a, b).val

\* u32 subtraction modulo 2^32, with the borrow out (overflowing_sub)
Sub32c(a, b) ==
    LET lo == a[2] - b[2]
        bl == IF lo < 0 THEN 1 ELSE 0
        hi == a[1] - b[1] - bl
    IN  [val |-> <<hi % 65536, lo % 65536>>, carry |-> hi < 0]

Sub32(a, b) == Sub32c(a, b).val

Bit31(w) == w[1] >= 32768

Byte(w, n) ==
    CASE n = 0 -> w[2] % 256
      [] n = 1 -> w[2] \div 256
      [] n = 2 -> w[1] % 256
      [] n = 3 -> w[1] \div 256

FromBytes(b0, b1, b2, b3) == <<b3 * 256 + b2, b1 * 256 + b0>>

-----------------------------------------------------------------------------
(* Constants of cpu.rs.                                                    *)

FLAG_MASK_N == W(\h8000, 0)
FLAG_MASK_Z == W(\h4000, 0)
FLAG_MASK_C == W(\h2000, 0)
FLAG_MASK_V == W(\h1000, 0)

MODE_USER == 0
MODE_FIQ == 1
MODE_IRQ == 2
MODE_SUPERVISOR == 3
MODE_ABORT == 7
MODE_UNDEFINED == 11
MODE_SYSTEM == 15

STATUS_FLAG_F == \h40
STATUS_FLAG_I == \h80

IRQ_VBLANK == 1
IRQ_HBLANK == 2
IRQ_VCOUNT == 4
IRQ_TIM0 == 8
IRQ_TIM1 == 16
IRQ_TIM2 == 32
IRQ_TIM3 == 64
IRQ_SERIAL == 128
IRQ_DMA0 == 256
IRQ_DMA1 == 512
IRQ_DMA2 == 1024
IRQ_DMA3 == 2048
IRQ_KEYPAD == 4096
IRQ_GAMEPAK == 8192
IRQ_DEBUG1 == 16384
IRQ_DEBUG2 == 32768

\* a build that lets stores reach the cartridge image
ROM_WRITING_on == TRUE

ROM_WRITING == FALSE
INTERNAL_PANIC == FALSE

DISPSTAT_VBLANK == 1
DISPSTAT_HBLANK == 2
DISPSTAT_VCOUNTER == 4

-----------------------------------------------------------------------------
(* lcd.rs and keypad.rs.                                                   *)

lcd_get_u16(lcd, addr) == lcd.registers[addr + 1] * 256 + lcd.registers[addr]

lcd_set_u16(lcd, addr, val) ==
    [lcd EXCEPT !.registers[addr + 1] = (val \div 256) % 256,
                !.registers[addr] = val % 256]

get_dispstat(lcd) == lcd_get_u16(lcd, 4)

set_dispstat(lcd, val) == lcd_set_u16(lcd, 4, val)

get_dispstat_vcount_flag(lcd) == BitAnd(lcd_get_u16(lcd, 4), DISPSTAT_VCOUNTER) # 0

set_dispstat_vblank(lcd, set) ==
    set_dispstat(lcd, IF set THEN BitOr(get_dispstat(lcd), DISPSTAT_VBLANK)
                      ELSE BitAnd(get_dispstat(lcd), BitNot16(DISPSTAT_VBLANK)))

set_dispstat_hblank(lcd, set) ==
    set_dispstat(lcd, IF set THEN BitOr(get_dispstat(lcd), DISPSTAT_HBLANK)
                      ELSE BitAnd(get_dispstat(lcd), BitNot16(DISPSTAT_HBLANK)))

set_dispstat_vcount(lcd, set) ==
    set_dispstat(lcd, IF set THEN BitOr(get_dispstat(lcd), DISPSTAT_VCOUNTER)
                      ELSE BitAnd(get_dispstat(lcd), BitNot16(DISPSTAT_VCOUNTER)))

is_vblank_irq_enabled(lcd) == BitAnd(get_dispstat(lcd), \h8) # 0

is_hblank_irq_enabled(lcd) == BitAnd(get_dispstat(lcd), \h10) # 0

is_vcount_irq_enabled(lcd) == BitAnd(get_dispstat(lcd), \h20) # 0

get_vcount(lcd) == lcd_get_u16(lcd, 6)

set_vcount(lcd, val) == lcd_set_u16(lcd, 6, val)

\* the new scanline is get_vcount of the result
increment_vcount(lcd) ==
    LET val == get_vcount(lcd)
        inc == IF val = 227 THEN 0 ELSE val + 1
        l1 == set_dispstat_vblank(lcd, inc >= 160 /\ inc <= 226)
        lyc == (get_dispstat(l1) \div 256) % 256
        l2 == set_dispstat_vcount(l1, lyc = inc)
    IN  set_vcount(l2, inc)

keypad_press(keypad, buttons) ==
    [keypad EXCEPT !.keyinput = BitAnd(@, BitNot16(buttons))]

keypad_release(keypad, buttons) ==
    [keypad EXCEPT !.keyinput = BitOr(@, buttons)]

keypad_is_irq_enabled(keypad) == BitAnd(keypad.keycnt, \h4000) # 0

-----------------------------------------------------------------------------
(* Status word and banked registers (cpu.rs:778-998).                      *)

get_flag_n(c) == And32(c.reg_cpsr, FLAG_MASK_N) # W(0, 0)

get_flag_z(c) == And32(c.reg_cpsr, FLAG_MASK_Z) # W(0, 0)

get_flag_c(c) == And32(c.reg_cpsr, FLAG_MASK_C) # W(0, 0)

get_flag_v(c) == And32(c.reg_cpsr, FLAG_MASK_V) # W(0, 0)

set_flag(c, mask, set) ==
    [c EXCEPT !.reg_cpsr = IF set THEN Or32(@, mask) ELSE And32(@, Not32(mask))]

set_flag_n(c, set) == set_flag(c, FLAG_MASK_N, set)

set_flag_z(c, set) == set_flag(c, FLAG_MASK_Z, set)

set_flag_c(c, set) == set_flag(c, FLAG_MASK_C, set)

set_flag_v(c, set) == set_flag(c, FLAG_MASK_V, set)

get_mode(c) == BitAnd(c.reg_cpsr[2], \hF)

set_mode(c, mode) ==
    [c EXCEPT !.reg_cpsr =
        Or32(Or32(And32(@, W(\hFFFF, \hFFE0)), W(0, \h10)), W(0, mode))]

is_thumb(c) == BitAnd(c.reg_cpsr[2], \h20) # 0

set_thumb(c, thumb) ==
    [c EXCEPT !.reg_cpsr = IF thumb THEN Or32(@, W(0, \h20))
                           ELSE And32(@, Not32(W(0, \h20)))]

\* write_register without the bank match: every index goes to the user bank
write_register_unbanked(c, register, value) ==
    [c EXCEPT !.registers[register] = value]

\* the bank match with its banked arms lost: every index is a user slot
register_slot_unbanked(c, register) == <<"registers", register>>

\* the match of read_register / write_register: which physical slot holds
\* register `register` in the current mode; "unreachable" is the
\* unreachable!() arm
register_slot(c, register) ==
    LET mode == get_mode(c)
        banked == mode # MODE_SYSTEM /\ mode # MODE_USER
        fiq == mode = MODE_FIQ
    IN  CASE register \in 0..7 \/ (register \in 8..14 /\ ~banked)
               \/ (register \in 8..12 /\ banked /\ ~fiq)
                 -> <<"registers", register>>
          [] register = 15 -> <<"registers", 15>>
          [] register \in 8..14 /\ banked /\ fiq -> <<"regs_fiq", register - 8>>
          [] register \in 13..14 /\ banked /\ ~fiq ->
                CASE mode = MODE_SUPERVISOR -> <<"regs_svc", register - 13>>
                  [] mode = MODE_ABORT -> <<"regs_abt", register - 13>>
                  [] mode = MODE_IRQ -> <<"regs_irq", register - 13>>
                  [] mode = MODE_UNDEFINED -> <<"regs_und", register - 13>>
                  [] OTHER -> <<"unreachable", register>>
          [] OTHER -> <<"unreachable", register>>

read_register(c, register) ==
    LET slot == register_slot(c, register)
    IN  CASE register = 15 ->
                IF is_thumb(c) THEN And32(c.registers[15], W(\hFFFF, \hFFFE))
                ELSE And32(c.registers[15], W(\hFFFF, \hFFFC))
          [] slot[1] = "unreachable" -> W(0, 0)
          [] OTHER -> c[slot[1]][slot[2]]

write_register(c, register, value) ==
    LET slot == register_slot(c, register)
    IN  CASE register = 15 ->
                [c EXCEPT !.registers[15] =
                    IF is_thumb(c) THEN And32(value, W(\hFFFF, \hFFFE))
                    ELSE And32(value, W(\hFFFF, \hFFFC))]
          [] slot[1] = "unreachable" -> [c EXCEPT !.unwound = TRUE]
          [] OTHER -> [c EXCEPT ![slot[1]][slot[2]] = value]

get_program_counter(c) == c.registers[15]

set_program_counter(c, addr) == write_register(c, 15, addr)

\* the PC step of the compact encoding whatever the count asked for
step_program_counter_halfword(c, steps) ==
    [c EXCEPT !.registers[15] = Add32(@, U32(2))]

step_program_counter(c, steps) ==
    [c EXCEPT !.registers[15] = Add32(@, U32(steps))]

-----------------------------------------------------------------------------
(* Interrupt controller (cpu.rs:852-915).                                  *)

\* the trigger sequence without its second line: the halt flag is left alone
trigger_irq_keeps_halt(c, irq) ==
    LET c1 == [c EXCEPT !.io_if = BitOr(@, irq),
                        !.regs_spsr[MODE_IRQ] = c.reg_cpsr,
                        !.reg_cpsr = W(0, BitOr(BitOr(\h80, \h10), MODE_IRQ))]
        c2 == write_register(c1, 14, Add32(get_program_counter(c1), U32(4)))
    IN  set_program_counter(c2, U32(\h18))

trigger_irq(c, irq) ==
    LET c1 == [c EXCEPT !.io_if = BitOr(@, irq),
                        !.halt = FALSE,
                        !.regs_spsr[MODE_IRQ] = c.reg_cpsr,
                        !.reg_cpsr = W(0, BitOr(BitOr(\h80, \h10), MODE_IRQ))]
        c2 == write_register(c1, 14, Add32(get_program_counter(c1), U32(4)))
    IN  set_program_counter(c2, U32(\h18))

\* the gate without its test of IE
can_irq_trigger_no_enable_mask(c, irq) ==
    LET ime_enable == BitAnd(c.io_ime, 1) = 1
        irq_enable == BitAnd(c.reg_cpsr[2], \h80) # \h80
        bios_if_enable == BitAnd(c.io_bios_if, irq) = irq
    IN  IF ~c.halt /\ (~irq_enable \/ ~ime_enable) THEN FALSE
        ELSE IF c.halt /\ (c.io_bios_if # 0 /\ ~bios_if_enable) THEN FALSE
        ELSE CASE irq = IRQ_VBLANK -> is_vblank_irq_enabled(c.lcd)
               [] irq = IRQ_HBLANK -> is_hblank_irq_enabled(c.lcd)
               [] irq = IRQ_VCOUNT -> is_vcount_irq_enabled(c.lcd)
               [] irq = IRQ_KEYPAD -> keypad_is_irq_enabled(c.keypad)
               [] irq \in {IRQ_GAMEPAK, IRQ_DEBUG1, IRQ_DEBUG2} -> TRUE
               [] OTHER -> FALSE

\* the gate without the narrowing by the firmware-pending word
can_irq_trigger_no_narrowing(c, irq) ==
    LET ime_enable == BitAnd(c.io_ime, 1) = 1
        ie_enable == BitAnd(c.io_ie, irq) = irq
        irq_enable == BitAnd(c.reg_cpsr[2], \h80) # \h80
    IN  IF ~ie_enable \/ (~c.halt /\ (~irq_enable \/ ~ime_enable)) THEN FALSE
        ELSE CASE irq = IRQ_VBLANK -> is_vblank_irq_enabled(c.lcd)
               [] irq = IRQ_HBLANK -> is_hblank_irq_enabled(c.lcd)
               [] irq = IRQ_VCOUNT -> is_vcount_irq_enabled(c.lcd)
               [] irq = IRQ_KEYPAD -> keypad_is_irq_enabled(c.keypad)
               [] irq \in {IRQ_GAMEPAK, IRQ_DEBUG1, IRQ_DEBUG2} -> TRUE
               [] OTHER -> FALSE

can_irq_trigger(c, irq) ==
    LET ime_enable == BitAnd(c.io_ime, 1) = 1
        ie_enable == BitAnd(c.io_ie, irq) = irq
        irq_enable == BitAnd(c.reg_cpsr[2], \h80) # \h80
        bios_if_enable == BitAnd(c.io_bios_if, irq) = irq
    IN  IF ~ie_enable \/ (~c.halt /\ (~irq_enable \/ ~ime_enable)) THEN FALSE
        ELSE IF c.halt /\ (c.io_bios_if # 0 /\ ~bios_if_enable) THEN FALSE
        ELSE CASE irq = IRQ_VBLANK -> is_vblank_irq_enabled(c.lcd)
               [] irq = IRQ_HBLANK -> is_hblank_irq_enabled(c.lcd)
               [] irq = IRQ_VCOUNT -> is_vcount_irq_enabled(c.lcd)
               [] irq = IRQ_KEYPAD -> keypad_is_irq_enabled(c.keypad)
               [] irq \in {IRQ_GAMEPAK, IRQ_DEBUG1, IRQ_DEBUG2} -> TRUE
               [] OTHER -> FALSE

-----------------------------------------------------------------------------
(* Shifts of a u32 and field extraction.                                   *)

Shr32(w, n) ==
    IF n >= 32 THEN W(0, 0)
    ELSE IF n >= 16 THEN W(0, w[1] \div (2 ^ (n - 16)))
    ELSE W(w[1] \div (2 ^ n), (w[2] \div (2 ^ n)) + (w[1] % (2 ^ n)) * (2 ^ (16 - n)))

Shl32(w, n) ==
    IF n >= 32 THEN W(0, 0)
    ELSE IF n >= 16 THEN W((w[2] * (2 ^ (n - 16))) % 65536, 0)
    ELSE W(((w[1] * (2 ^ n)) % 65536) + (w[2] \div (2 ^ (16 - n))), (w[2] * (2 ^ n)) % 65536)

\* u32::rotate_right
Ror32(w, n) ==
    LET k == n % 32
    IN  IF k = 0 THEN w ELSE Or32(Shr32(w, k), Shl32(w, 32 - k))

\* (x as i32) >> n for n in 0..31
Asr32(w, n) ==
    IF Bit31(w) THEN Or32(Shr32(w, n), Not32(Shr32(W(\hFFFF, \hFFFF), n)))
    ELSE Shr32(w, n)

\* (opcode >> shift) & mask, for a mask below 2^16
Field(w, shift, mask) == BitAnd(Shr32(w, shift)[2], mask)

\* (w & mask) != 0
Test(w, mask) == And32(w, mask) # W(0, 0)

-----------------------------------------------------------------------------
(* Wide-form decode masks (cpu.rs:660-679).                                *)

ARM_MASK_MUL_CLR == W(\h0FC0, \h0060)
ARM_MASK_MUL_SET == W(\h0000, \h0090)
ARM_MASK_MUL_LONG_CLR == W(\h0F00, \h0090)
ARM_MASK_MUL_LONG_SET == W(\h0080, \h0090)
ARM_MASK_SNGL_SWP_CLR == W(\h0EB0, \h0F60)
ARM_MASK_SNGL_SWP_SET == W(\h0100, \h0090)
ARM_MASK_BX_CLR == W(\h0ED0, \h00E0)
ARM_MASK_BX_SET == W(\h012F, \hFF10)
ARM_MASK_HW_REG_CLR == W(\h0E40, \h0F00)
ARM_MASK_HW_REG_SET == W(\h0000, \h0090)
ARM_MASK_HW_IMM_CLR == W(\h0E00, \h0000)
ARM_MASK_HW_IMM_SET == W(\h0040, \h0090)
ARM_MASK_UNDEF_CLR == W(\h0800, \h0000)
ARM_MASK_UNDEF_SET == W(\h0600, \h0010)
ARM_MASK_MRS_CLR == W(\h0EB0, \h0FFF)
ARM_MASK_MRS_SET == W(\h010F, \h0000)
ARM_MASK_MSR_CLR == W(\h0E96, \h0FF0)
ARM_MASK_MSR_SET == W(\h0129, \hF000)
ARM_MASK_MSR_BITS_CLR == W(\h0C97, \h0000)
ARM_MASK_MSR_BITS_SET == W(\h0128, \hF000)

opcode_match(opc, mask_clr, mask_set) ==
    And32(opc, mask_set) = mask_set /\ And32(Not32(opc), mask_clr) = mask_clr

-----------------------------------------------------------------------------
(* Condition field (cpu.rs:2461-2489): the predicate, and the CPU after    *)
(* the call (the arm for 0xF sets the panic flag).                         *)

should_execute(c, conditional) ==
    LET n == get_flag_n(c)
        z == get_flag_z(c)
        cf == get_flag_c(c)
        v == get_flag_v(c)
    IN  CASE conditional = 0 -> z
          [] conditional = 1 -> ~z
          [] conditional = 2 -> cf
          [] conditional = 3 -> ~cf
          [] conditional = 4 -> n
          [] conditional = 5 -> ~n
          [] conditional = 6 -> v
          [] conditional = 7 -> ~v
          [] conditional = 8 -> cf /\ ~z
          [] conditional = 9 -> ~cf \/ z
          [] conditional = 10 -> n = v
          [] conditional = 11 -> n # v
          [] conditional = 12 -> ~z /\ (n = v)
          [] conditional = 13 -> z \/ (n # v)
          [] conditional = 14 -> TRUE
          [] OTHER -> FALSE

should_execute_effect(c, conditional) ==
    IF conditional \in 0..14 THEN c ELSE [c EXCEPT !.panic = TRUE]

-----------------------------------------------------------------------------
(* Operand 2 of a data-processing instruction (cpu.rs:2177-2237).          *)
(* A register-specified amount of 32 or more reaches Rust shifts that      *)
(* overflow; the values given for them are those of a release build.       *)

alu_operand2_calc(c, imm, op2) ==
    IF imm THEN
        LET rotate == (op2 \div 256) % 16
            val == U32(op2 % 256)
        IN  [val |-> Ror32(val, rotate * 2), carry |-> get_flag_c(c)]
    ELSE
        LET rm == op2 % 16
            rm_val == read_register(c, rm)
            shift_type == (op2 \div 32) % 4
            shift_imm == BitAnd(op2, \h10) = 0
            shift_amount ==
                IF shift_imm THEN (op2 \div 128) % 32
                ELSE read_register(c, (op2 \div 256) % 16)[2] % 256
        IN  CASE shift_type = 0 ->
                  [val |-> Shl32(rm_val, shift_amount % 32),
                   carry |-> CASE shift_amount = 0 -> get_flag_c(c)
                               [] shift_amount \in 1..31 ->
                                    Test(rm_val, Shl32(U32(1), 31 - shift_amount))
                               [] OTHER -> FALSE]
              [] shift_type = 1 ->
                  CASE shift_amount = 0 -> [val |-> W(0, 0), carry |-> Bit31(rm_val)]
                    [] shift_amount \in 1..31 ->
                         [val |-> Shr32(rm_val, shift_amount),
                          carry |-> Test(rm_val, Shl32(U32(1), shift_amount - 1))]
                    [] OTHER -> [val |-> W(0, 0), carry |-> FALSE]
              [] shift_type = 2 ->
                  CASE shift_amount \in 1..31 ->
                         [val |-> Asr32(rm_val, shift_amount),
                          carry |-> Test(rm_val, Shl32(U32(1), shift_amount - 1))]
                    [] ~Bit31(rm_val) -> [val |-> W(0, 0), carry |-> Bit31(rm_val)]
                    [] OTHER -> [val |-> W(\hFFFF, \hFFFF), carry |-> Bit31(rm_val)]
              [] shift_type = 3 ->
                  CASE shift_amount = 0 ->
                         [val |-> Or32(Shr32(rm_val, 1),
                                       Shl32(U32(IF get_flag_c(c) THEN 1 ELSE 0), 31)),
                          carry |-> Test(rm_val, U32(1))]
                    [] OTHER ->
                         [val |-> Ror32(rm_val, shift_amount),
                          carry |-> Test(rm_val, Shl32(U32(1), (shift_amount - 1) % 32))]

-----------------------------------------------------------------------------
(* Ways out of the model.                                                  *)

\* a todo!(), panic!(), unreachable!() or failed index check: the thread
\* unwinds and the process is gone
rust_panic(c) == [c EXCEPT !.unwound = TRUE]

\* code this model does not follow (an instruction family, a device); the
\* specifications never get there, which InsideModel states
outside_model(c) == [c EXCEPT !.outside = TRUE]

-----------------------------------------------------------------------------
(* Memory bus (cpu.rs:60-658).                                             *)
(*                                                                         *)
(* ram_work1 and ram_work2 are zero-initialised arrays of fixed length; a  *)
(* value of the model holds their non-zero bytes only.  rom and bios are   *)
(* Vec<u8>: functions on 0..len-1.  An index past the end of an array or   *)
(* Vec is a Rust panic.  Palette, video, object-attribute memory, timers   *)
(* and the serial port are not part of this model.                         *)

LEN_WORK1 == 262144
LEN_WORK2 == 32768

vec_len(vec) == Cardinality(DOMAIN vec)

load(mem, i) == IF i \in DOMAIN mem THEN mem[i] ELSE 0

store(mem, i, v) ==
    IF v = 0 THEN [j \in DOMAIN mem \ {i} |-> mem[j]]
    ELSE [j \in DOMAIN mem \cup {i} |-> IF j = i THEN v ELSE mem[j]]

load32(mem, i) == FromBytes(load(mem, i), load(mem, i + 1), load(mem, i + 2), load(mem, i + 3))

store32(mem, i, val) ==
    store(store(store(store(mem, i + 3, Byte(val, 3)), i + 2, Byte(val, 2)),
                i + 1, Byte(val, 1)), i, Byte(val, 0))

\* addr & 0x0FFFFFFF, as an integer
mask_addr(addr) == BitAnd(addr[1], \h0FFF) * 65536 + addr[2]

\* (addr & 0x00FFFFFF) as usize
mask_offset(a) == a % \h01000000

mirror_offset(offset) == BitOr(BitAnd(offset, \hFF), \h7F00)

set_mem_ptr(c, intern, a) == IF intern THEN [c EXCEPT !.mem_ptr = a] ELSE c

in_rom(a, last) ==
    \/ a \in \h08000000..(\h09FFFFFF - last)
    \/ a \in \h0A000000..(\h0BFFFFFF - last)
    \/ a \in \h0C000000..(\h0DFFFFFF - last)

\* palette, video and object-attribute memory, shared with the renderer
in_shared(a) ==
    \/ a \in \h05000000..\h050003FF
    \/ a \in \h06000000..\h06017FFF
    \/ a \in \h07000000..\h070003FF

Got(c, v) == [cpu |-> c, val |-> v]

read_u8(c0, intern, addr) ==
    LET a == mask_addr(addr)
        c == set_mem_ptr(c0, intern, a)
        offset == mask_offset(a)
        io_addr == a % 1024
    IN  IF intern /\ a < \h3FFF THEN Got(rust_panic(c), 0)
        ELSE CASE a \in 0..\h3FFF ->
                    IF a < vec_len(c.bios) THEN Got(c, c.bios[a]) ELSE Got(rust_panic(c), 0)
          [] a \in \h02000000..\h0203FFFF -> Got(c, load(c.ram_work1, offset))
          [] a \in \h03000000..\h03007FFF -> Got(c, load(c.ram_work2, offset))
          [] a \in \h03FFFF00..\h03FFFFFF -> Got(c, load(c.ram_work2, mirror_offset(offset)))
          [] a \in \h04000000..\h040003FE ->
                CASE io_addr \in \h00..\h56 -> Got(c, c.lcd.registers[io_addr])
                  [] io_addr \in \h60..\hA7 -> Got(c, 0)
                  [] io_addr \in \hB0..\hDE -> Got(c, c.dma[io_addr - \hB0])
                  [] io_addr \in {\h134, \h135} -> Got(outside_model(c), 0)
                  [] OTHER -> IF intern THEN Got(rust_panic(c), 0) ELSE Got(c, 0)
          [] in_shared(a) -> Got(outside_model(c), 0)
          [] in_rom(a, 3) ->
                IF offset < vec_len(c.rom) THEN Got(c, c.rom[offset])
                ELSE Got(rust_panic(c), 0)
          [] OTHER -> IF INTERNAL_PANIC THEN Got([c EXCEPT !.panic = TRUE], 0)
                      ELSE Got(rust_panic(c), 0)

read_u16(c0, intern, addr) ==
    LET a == mask_addr(addr)
        c == set_mem_ptr(c0, intern, a)
        offset == mask_offset(a)
        io_addr == a % 1024
    IN  IF intern /\ a < \h3FFF THEN Got(rust_panic(c), 0)
        ELSE CASE a \in 0..\h3FFF -> Got(c, 0)
          [] a \in \h02000000..\h0203FFFF ->
                IF offset + 1 >= LEN_WORK1 THEN Got(rust_panic(c), 0)
                ELSE Got(c, load(c.ram_work1, offset + 1) * 256 + load(c.ram_work1, offset))
          [] a \in \h03000000..\h03007FFF ->
                IF offset + 1 >= LEN_WORK2 THEN Got(rust_panic(c), 0)
                ELSE Got(c, load(c.ram_work2, offset + 1) * 256 + load(c.ram_work2, offset))
          [] a \in \h04000000..\h040003FE ->
                CASE io_addr = 0 -> Got(c, lcd_get_u16(c.lcd, 0))
                  [] OTHER -> IF intern THEN Got(rust_panic(c), 0) ELSE Got(c, 0)
          [] in_shared(a) -> Got(outside_model(c), 0)
          [] in_rom(a, 0) ->
                IF offset + 1 < vec_len(c.rom)
                THEN Got(c, c.rom[offset + 1] * 256 + c.rom[offset])
                ELSE Got(rust_panic(c), 0)
          [] OTHER -> IF INTERNAL_PANIC THEN Got([c EXCEPT !.panic = TRUE], 0)
                      ELSE Got(rust_panic(c), 0)

read_u32_io(c, intern, io_addr) ==
    CASE io_addr \in \h00..\h54 ->
            Got(c, FromBytes(c.lcd.registers[io_addr], c.lcd.registers[io_addr + 1],
                             c.lcd.registers[io_addr + 2], c.lcd.registers[io_addr + 3]))
      [] io_addr \in \h60..\hA4 -> Got(c, W(0, 0))
      [] io_addr \in \hB0..\hDC ->
            LET offset == io_addr - \hB0
            IN  Got(c, FromBytes(c.dma[offset], c.dma[offset + 1],
                                 c.dma[offset + 2], c.dma[offset + 3]))
      [] io_addr = \hDE ->
            LET offset == io_addr - \hB0
            IN  Got(c, FromBytes(c.dma[offset], c.dma[offset + 1], 0, 0))
      [] io_addr \in \h100..\h10E \/ io_addr \in \h120..\h12A \/ io_addr \in \h134..\h158 ->
            Got(outside_model(c), W(0, 0))
      [] io_addr = \h130 -> Got(c, W(0, c.keypad.keyinput))
      [] io_addr = \h132 -> Got(c, W(0, c.keypad.keycnt))
      [] io_addr = \h200 -> Got(c, W(c.io_if, c.io_ie))
      [] io_addr = \h202 -> Got(c, W(0, c.io_if))
      [] io_addr = \h204 -> Got(c, W(0, c.io_waitcnt))
      [] io_addr = \h208 -> Got(c, W(0, c.io_ime))
      [] OTHER -> IF intern THEN Got(rust_panic(c), W(0, 0)) ELSE Got(c, W(0, 0))

read_u32(c0, intern, addr) ==
    LET a == mask_addr(addr)
        c == set_mem_ptr(c0, intern, a)
        offset == mask_offset(a)
        zero == W(0, 0)
    IN  IF intern /\ a < \h3FFF THEN Got(rust_panic(c), zero)
        ELSE CASE a \in 0..\h3FFF ->
                    IF offset + 3 < vec_len(c.bios)
                    THEN Got(c, FromBytes(c.bios[offset], c.bios[offset + 1],
                                          c.bios[offset + 2], c.bios[offset + 3]))
                    ELSE Got(rust_panic(c), zero)
          [] a \in \h02000000..\h0203FFFF ->
                IF offset + 3 >= LEN_WORK1 THEN Got(rust_panic(c), zero)
                ELSE Got(c, load32(c.ram_work1, offset))
          [] a = \h03007FF8 -> Got(c, W(0, c.io_bios_if))
          [] a \in \h03000000..\h03007FFF ->
                IF offset + 3 >= LEN_WORK2 THEN Got(rust_panic(c), zero)
                ELSE Got(c, load32(c.ram_work2, offset))
          [] a \in \h03FFFF00..\h03FFFFFF ->
                IF mirror_offset(offset) + 3 >= LEN_WORK2 THEN Got(rust_panic(c), zero)
                ELSE Got(c, load32(c.ram_work2, mirror_offset(offset)))
          [] a \in \h04000000..\h040003FE -> read_u32_io(c, intern, a % 1024)
          [] in_shared(a) -> Got(outside_model(c), zero)
          [] in_rom(a, 3) ->
                IF offset + 3 < vec_len(c.rom)
                THEN Got(c, FromBytes(c.rom[offset], c.rom[offset + 1],
                                      c.rom[offset + 2], c.rom[offset + 3]))
                ELSE Got(rust_panic(c), zero)
          [] OTHER -> IF INTERNAL_PANIC THEN Got([c EXCEPT !.panic = TRUE], zero)
                      ELSE Got(rust_panic(c), zero)

write_u8(c0, intern, addr, val) ==
    LET a == mask_addr(addr)
        c == set_mem_ptr(c0, intern, a)
        offset == mask_offset(a)
        io_addr == a % 1024
    IN  CASE a \in 0..\h3FFF -> [c EXCEPT !.panic = TRUE]
          [] a \in \h02000000..\h0203FFFF ->
                [c EXCEPT !.ram_work1 = store(@, offset, val)]
          [] a \in \h03000000..\h03007FFF ->
                [c EXCEPT !.ram_work2 = store(@, offset, val)]
          [] a \in \h04000000..\h040003FE ->
                CASE io_addr \in \h00..\h55 -> [c EXCEPT !.lcd.registers[io_addr] = val]
                  [] io_addr \in \h60..\hA7 -> c
                  [] io_addr \in \hB0..\hDE -> [c EXCEPT !.dma[io_addr - \hB0] = val]
                  [] io_addr \in \h120..\h12B \/ io_addr \in \h134..\h159 -> outside_model(c)
                  [] io_addr = \h208 -> [c EXCEPT !.io_ime = val]
                  [] OTHER -> IF intern THEN rust_panic(c) ELSE c
          [] in_shared(a) -> outside_model(c)
          [] in_rom(a, 3) ->
                IF ROM_WRITING
                THEN IF offset < vec_len(c.rom) THEN [c EXCEPT !.rom[offset] = val]
                     ELSE rust_panic(c)
                ELSE [c EXCEPT !.panic = TRUE]
          [] OTHER -> IF INTERNAL_PANIC THEN [c EXCEPT !.panic = TRUE]
                      ELSE rust_panic(c)

write_u32_io(c, intern, io_addr, val) ==
    CASE io_addr \in \h00..\h54 ->
            [c EXCEPT !.lcd.registers[io_addr + 3] = Byte(val, 3),
                      !.lcd.registers[io_addr + 2] = Byte(val, 2),
                      !.lcd.registers[io_addr + 1] = Byte(val, 1),
                      !.lcd.registers[io_addr] = Byte(val, 0)]
      [] io_addr \in \h60..\hA4 -> c
      [] io_addr \in \hB0..\hDC ->
            LET offset == io_addr - \hB0
            IN  [c EXCEPT !.dma[offset + 3] = Byte(val, 3),
                          !.dma[offset + 2] = Byte(val, 2),
                          !.dma[offset + 1] = Byte(val, 1),
                          !.dma[offset] = Byte(val, 0)]
      [] io_addr = \hDE ->
            LET offset == io_addr - \hB0
            IN  [c EXCEPT !.dma[offset + 1] = Byte(val, 1),
                          !.dma[offset] = Byte(val, 0)]
      [] io_addr \in \h100..\h10E \/ io_addr \in \h120..\h12A \/ io_addr \in \h134..\h158 ->
            outside_model(c)
      [] io_addr = \h200 -> [c EXCEPT !.io_ie = val[2]]
      [] io_addr = \h202 -> [c EXCEPT !.io_if = BitAnd(@, BitNot16(val[2]))]
      [] io_addr = \h204 -> [c EXCEPT !.io_waitcnt = val[2]]
      [] io_addr = \h208 -> [c EXCEPT !.io_ime = val[2] % 256]
      [] OTHER -> IF intern THEN rust_panic(c) ELSE c

write_u32(c0, intern, addr, val) ==
    LET a == mask_addr(addr)
        c == set_mem_ptr(c0, intern, a)
        offset == mask_offset(a)
    IN  IF intern /\ a < \h3FFF THEN rust_panic(c)
        ELSE CASE a \in \h02000000..\h0203FFFF ->
                    IF offset + 3 >= LEN_WORK1 THEN rust_panic(c)
                    ELSE [c EXCEPT !.ram_work1 = store32(@, offset, val)]
          [] a = \h03007FF8 -> [c EXCEPT !.io_bios_if = BitAnd(@, BitNot16(val[2]))]
          [] a \in \h03000000..\h03007FFF ->
                IF offset + 3 >= LEN_WORK2 THEN rust_panic(c)
                ELSE [c EXCEPT !.ram_work2 = store32(@, offset, val)]
          [] a \in \h03FFFF00..\h03FFFFFF ->
                IF mirror_offset(offset) + 3 >= LEN_WORK2 THEN rust_panic(c)
                ELSE [c EXCEPT !.ram_work2 = store32(@, mirror_offset(offset), val)]
          [] a \in \h04000000..\h040003FE -> write_u32_io(c, intern, a % 1024, val)
          [] in_shared(a) -> outside_model(c)
          [] in_rom(a, 3) ->
                IF ROM_WRITING
                THEN IF offset + 3 < vec_len(c.rom)
                     THEN [c EXCEPT !.rom[offset + 3] = Byte(val, 3),
                                    !.rom[offset + 2] = Byte(val, 2),
                                    !.rom[offset + 1] = Byte(val, 1),
                                    !.rom[offset] = Byte(val, 0)]
                     ELSE rust_panic(c)
                ELSE [c EXCEPT !.panic = TRUE]
          [] OTHER -> IF INTERNAL_PANIC THEN [c EXCEPT !.panic = TRUE]
                      ELSE rust_panic(c)

addr_valid(addr) ==
    LET a == mask_addr(addr)
    IN  \/ a \in 0..\h3FFF
        \/ a \in \h02000000..\h0203FFFF
        \/ a \in \h03000000..\h03007FFF
        \/ a \in \h03FFFF00..\h03FFFFFF
        \/ a \in \h04000000..\h040003FE
        \/ a \in \h05000000..\h050003FF
        \/ a \in \h06000000..\h06017FFF
        \/ a \in \h07000000..\h070003FF
        \/ in_rom(a, 3)

\* a call made after an earlier call of the same method body unwound never
\* happens
Then(c, next(_)) == IF c.unwound THEN c ELSE next(c)

\* the 16-bit store of the bus: two byte stores, low byte first
\* (cpu.rs:1095-1096; the trait has no write_u16, cpu.rs:15)
write_u16(c, intern, addr, val) ==
    LET c1 == write_u8(c, intern, addr, val % 256)
        put_high(x) == write_u8(x, intern, Add32(addr, U32(1)), val \div 256)
    IN  Then(c1, put_high)

-----------------------------------------------------------------------------
(* Construction, reset and DMA (cpu.rs:732-850, 1018-1133).                *)

Zeros(n) == [i \in 0..(n - 1) |-> W(0, 0)]

\* LCD::new and Keypad::new
lcd_new == [registers |-> [i \in 0..87 |-> 0]]

keypad_new == [keyinput |-> \hFFFF, keycnt |-> 0]

\* CPU::new, with the two fields of the model that say the thread left it
cpu_new ==
    [mem_ptr |-> 0,
     registers |-> Zeros(16),
     reg_cpsr |-> W(0, BitOr(BitOr(STATUS_FLAG_F, STATUS_FLAG_I), MODE_SUPERVISOR)),
     regs_spsr |-> Zeros(16),
     regs_fiq |-> Zeros(7),
     regs_svc |-> Zeros(2),
     regs_abt |-> Zeros(2),
     regs_irq |-> Zeros(2),
     regs_und |-> Zeros(2),
     ram_work1 |-> [i \in {} |-> 0],
     ram_work2 |-> [i \in {} |-> 0],
     panic |-> FALSE,
     rom |-> [i \in {} |-> 0],
     bios |-> [i \in {} |-> 0],
     dma |-> [i \in 0..47 |-> 0],
     io_waitcnt |-> 0,
     io_ie |-> 0,
     io_ime |-> 0,
     io_if |-> 0,
     keypad |-> keypad_new,
     lcd |-> lcd_new,
     halt |-> FALSE,
     io_bios_if |-> 0,
     cycle_count |-> 0,
     unwound |-> FALSE,
     outside |-> FALSE]

\* rom and bios are byte sequences; the Vec is indexed from 0
load_rom(c, rom) == [c EXCEPT !.rom = [i \in 0..(Len(rom) - 1) |-> rom[i + 1]]]

load_bios(c, bios) == [c EXCEPT !.bios = [i \in 0..(Len(bios) - 1) |-> bios[i + 1]]]

reset(c) ==
    LET c1 == [c EXCEPT !.registers = Zeros(16),
                        !.reg_cpsr = W(0, BitOr(BitOr(STATUS_FLAG_F, STATUS_FLAG_I),
                                                MODE_SUPERVISOR)),
                        !.regs_spsr = Zeros(16),
                        !.dma = [i \in 0..47 |-> 0]]
        c2 == set_program_counter(c1, W(\h0800, 0))
    IN  [c2 EXCEPT !.regs_svc[0] = W(\h0300, \h7FE0),
                   !.regs_irq[0] = W(\h0300, \h7FA0),
                   !.registers[13] = W(\h0300, \h7F00),
                   !.panic = FALSE,
                   !.halt = FALSE,
                   !.cycle_count = 0]

DMA_BASE == W(\h0400, \h00B0)

\* Some(i) is i, None is -1; a todo!() arm sets unwound
RECURSIVE dma_check_from(_, _)
dma_check_from(c, i) ==
    IF i >= 4 THEN [num |-> -1, unwound |-> FALSE]
    ELSE LET reg == read_u32(c, FALSE, Add32(DMA_BASE, U32(i * 12 + 8))).val
             control == reg[1]
             timing == (control \div 4096) % 4
             enable == BitAnd(control, \h8000) # 0
         IN  IF ~enable \/ (timing = 3 /\ (i = 1 \/ i = 2)) THEN dma_check_from(c, i + 1)
             ELSE IF timing = 0 THEN [num |-> i, unwound |-> FALSE]
             ELSE [num |-> -1, unwound |-> TRUE]

dma_check(c) == dma_check_from(c, 0)

\* cpu.rs:1086-1096: one unit moved, a word or a halfword as two bytes
dma_move_bytes(low, high, dest_ptr) ==
    IF high.cpu.unwound THEN high.cpu
    ELSE write_u16(high.cpu, TRUE, dest_ptr, high.val * 256 + low.val)

dma_move_halfword(low, src_ptr, dest_ptr) ==
    IF low.cpu.unwound THEN low.cpu
    ELSE dma_move_bytes(low, read_u8(low.cpu, TRUE, Add32(src_ptr, U32(1))), dest_ptr)

dma_move_word(got, dest_ptr) ==
    IF got.cpu.unwound THEN got.cpu
    ELSE write_u32(got.cpu, TRUE, dest_ptr, got.val)

dma_move(c, word, src_ptr, dest_ptr) ==
    IF word THEN dma_move_word(read_u32(c, TRUE, src_ptr), dest_ptr)
    ELSE dma_move_halfword(read_u8(c, TRUE, src_ptr), src_ptr, dest_ptr)

\* cpu.rs:1098-1116: Fix pointers
dma_pointer(ptr, ctrl, step) ==
    CASE ctrl = 0 -> Add32(ptr, step)
      [] ctrl = 1 -> Sub32(ptr, step)
      [] OTHER -> ptr

\* cpu.rs:1084-1117: the loop over count units; moved is the CPU after the
\* first of the n units left
RECURSIVE dma_transfer(_, _, _, _, _, _, _)
dma_transfer_rest(moved, n, word, src_ptr, dest_ptr, dest_ctrl, src_ctrl) ==
    IF moved.unwound THEN moved
    ELSE IF dest_ctrl = 3 \/ src_ctrl = 3 THEN rust_panic(moved)
    ELSE dma_transfer(moved, n - 1, word,
                      dma_pointer(src_ptr, src_ctrl, U32(IF word THEN 4 ELSE 2)),
                      dma_pointer(dest_ptr, dest_ctrl, U32(IF word THEN 4 ELSE 2)),
                      dest_ctrl, src_ctrl)

dma_transfer(c, n, word, src_ptr, dest_ptr, dest_ctrl, src_ctrl) ==
    IF n = 0 \/ c.unwound THEN c
    ELSE dma_transfer_rest(dma_move(c, word, src_ptr, dest_ptr), n, word,
                           src_ptr, dest_ptr, dest_ctrl, src_ctrl)

\* the completion that leaves the control word as it is
dma_finish_keeps_enable(done, reg_offset, control) ==
    IF done.unwound THEN done
    ELSE IF BitAnd(control, \h4000) # 0 THEN rust_panic(done)
    ELSE done

\* cpu.rs:1119-1126
dma_finish(done, reg_offset, control) ==
    IF done.unwound THEN done
    ELSE IF BitAnd(control, \h4000) # 0 THEN rust_panic(done)
    ELSE IF BitAnd(control, \h200) = 0
         THEN [done EXCEPT !.dma[reg_offset + 11] = BitAnd(@, 255 - \h80)]
    ELSE done

\* cpu.rs:1051-1070
dma_count(cnt, num) ==
    IF cnt = 0 THEN (IF num = 3 THEN 65536 ELSE 16384) ELSE cnt

dma_run_control(c, num, src, dest, cnt, control) ==
    dma_finish(dma_transfer(c, dma_count(cnt, num), BitAnd(control, \h400) # 0,
                            src, dest, (control \div 32) % 4, (control \div 128) % 4),
               num * 12, control)

dma_run_count(num, src, dest, r_reg) ==
    dma_run_control(r_reg.cpu, num, src, dest, r_reg.val[2], r_reg.val[1])

dma_run_dest(num, src, r_dest) ==
    dma_run_count(num, src, r_dest.val,
                  read_u32(r_dest.cpu, TRUE, Add32(DMA_BASE, U32(num * 12 + 8))))

dma_run_src(num, r_src) ==
    dma_run_dest(num, r_src.val,
                 read_u32(r_src.cpu, TRUE, Add32(DMA_BASE, U32(num * 12 + 4))))

dma_run(c, num) ==
    dma_run_src(num, read_u32(c, TRUE, Add32(DMA_BASE, U32(num * 12))))

-----------------------------------------------------------------------------
(* Block transfers (cpu.rs:3023-3084).                                     *)

RECURSIVE count_ones(_)
count_ones(x) == IF x = 0 THEN 0 ELSE (x % 2) + count_ones(x \div 2)

\* the base register always moves up
operation_ldm_stm_final_up(base, up, num_reg) == Add32(base, U32(num_reg * 4))

\* final_rb
operation_ldm_stm_final(base, up, num_reg) ==
    IF up THEN Add32(base, U32(num_reg * 4)) ELSE Sub32(base, U32(num_reg * 4))

\* the first address with the pre/post distinction lost
operation_ldm_stm_pointer_post(base, up, pre, num_reg) ==
    IF up THEN base ELSE Add32(Sub32(base, U32(num_reg * 4)), U32(4))

\* the match on (up, pre): the address of the first word
operation_ldm_stm_pointer(base, up, pre, num_reg) ==
    CASE ~up /\ ~pre -> Add32(Sub32(base, U32(num_reg * 4)), U32(4))
      [] ~up /\ pre -> Sub32(base, U32(num_reg * 4))
      [] up /\ ~pre -> base
      [] up /\ pre -> Add32(base, U32(4))

operation_ldm_stm_loaded(got, i) ==
    IF got.cpu.unwound THEN got.cpu ELSE write_register(got.cpu, i, got.val)

\* one pass of the loop body for a register of the list
operation_ldm_stm_move(c, i, is_load, ptr) ==
    IF is_load THEN operation_ldm_stm_loaded(read_u32(c, FALSE, ptr), i)
    ELSE write_u32(c, FALSE, ptr, read_register(c, i))

\* for i in 0..16, from i on
RECURSIVE operation_ldm_stm_from(_, _, _, _, _)
operation_ldm_stm_from(c, i, r_list, is_load, ptr) ==
    IF i = 16 \/ c.unwound THEN c
    ELSE IF (r_list \div (2 ^ i)) % 2 = 0
         THEN operation_ldm_stm_from(c, i + 1, r_list, is_load, ptr)
         ELSE operation_ldm_stm_from(operation_ldm_stm_move(c, i, is_load, ptr),
                                     i + 1, r_list, is_load, Add32(ptr, U32(4)))

operation_ldm_stm_cycles(r_list, is_load, num_reg) ==
    (IF is_load THEN 2 ELSE 1) + num_reg
        + (IF is_load /\ r_list >= 32768 THEN 2 ELSE 0)

operation_ldm_stm_end(done, r_base, wb, final_rb, cycles) ==
    IF done.unwound THEN done
    ELSE [(IF wb THEN write_register(done, r_base, final_rb) ELSE done)
            EXCEPT !.cycle_count = @ + cycles]

operation_ldm_stm_at(c, r_base, r_list, is_load, wb, pre, up, num_reg, base) ==
    operation_ldm_stm_end(
        operation_ldm_stm_from(c, 0, r_list, is_load,
                               operation_ldm_stm_pointer(base, up, pre, num_reg)),
        r_base, wb, operation_ldm_stm_final(base, up, num_reg),
        operation_ldm_stm_cycles(r_list, is_load, num_reg))

operation_ldm_stm(c, r_base, r_list, is_load, wb, pre, up, s_bit) ==
    IF s_bit THEN rust_panic(c)
    ELSE operation_ldm_stm_at(c, r_base, r_list, is_load, wb, pre, up,
                              count_ones(r_list), read_register(c, r_base))

-----------------------------------------------------------------------------
(* Wide-form executors.                                                    *)

\* the tuple (result, logical, carry, overflow) of the match on op
arm_data_processing_alu(c, alu_op, operand1, operand2) ==
    LET cin == U32(IF get_flag_c(c) THEN 1 ELSE 0)
        V(a, r) == Bit31(Xor32(a, r))
        arith(r, a, carry) ==
            [result |-> r, logical |-> FALSE, carry |-> carry, overflow |-> V(a, r)]
        logic(r) ==
            [result |-> r, logical |-> TRUE, carry |-> FALSE, overflow |-> FALSE]
    IN  CASE alu_op \in {0, 8} -> logic(And32(operand1, operand2))
          [] alu_op \in {1, 9} -> logic(Xor32(operand1, operand2))
          [] alu_op \in {2, 10} ->
                LET r == Sub32c(operand1, operand2)
                IN  arith(r.val, operand1, r.carry)
          [] alu_op = 3 ->
                LET r == Sub32c(operand2, operand1)
                IN  arith(r.val, operand2, r.carry)
          [] alu_op \in {4, 11} ->
                LET r == Add32c(operand1, operand2)
                IN  arith(r.val, operand1, r.carry)
          [] alu_op = 5 ->
                LET r1 == Add32c(operand1, cin)
                    r2 == Add32c(r1.val, operand2)
                IN  arith(r2.val, operand1, r1.carry \/ r2.carry)
          [] alu_op = 6 ->
                LET r1 == Add32c(operand2, cin)
                    r2 == Sub32c(r1.val, U32(1))
                    r3 == Sub32c(operand1, r2.val)
                IN  arith(r3.val, operand1, r1.carry \/ r2.carry \/ r3.carry)
          [] alu_op = 7 ->
                LET r1 == Add32c(operand1, cin)
                    r2 == Sub32c(r1.val, U32(1))
                    r3 == Sub32c(operand2, r2.val)
                IN  arith(r3.val, operand2, r1.carry \/ r2.carry \/ r3.carry)
          [] alu_op = 12 -> logic(Or32(operand1, operand2))
          [] alu_op = 13 -> logic(operand2)
          [] alu_op = 14 -> logic(And32(operand1, Not32(operand2)))
          [] alu_op = 15 -> logic(Not32(operand2))

\* the flag step without its rd = 15 arm: the saved status is never restored
arm_data_processing_flags_no_restore(c, rd, set_condition, alu_op, r, shifter_carry) ==
    c

\* Set flags (cpu.rs:2656-2683): r is the tuple of the match on op
arm_data_processing_flags(c, rd, set_condition, alu_op, r, shifter_carry) ==
    IF set_condition \/ (alu_op >= 8 /\ alu_op <= 11) THEN
        IF rd = 15 THEN
            IF set_condition
            THEN [c EXCEPT !.reg_cpsr = c.regs_spsr[get_mode(c)]]
            ELSE c
        ELSE IF ~r.logical
             THEN set_flag_v(set_flag_c(set_flag_z(set_flag_n(c, Bit31(r.result)),
                                                   r.result = W(0, 0)),
                                        r.carry),
                             r.overflow)
             ELSE set_flag_c(set_flag_z(set_flag_n(c, Bit31(r.result)),
                                        r.result = W(0, 0)),
                             shifter_carry)
    ELSE c

\* If not test opcode, store result; step; count cycles (cpu.rs:2685-2694)
arm_data_processing_store(c, rd, alu_op, result) ==
    [step_program_counter(IF alu_op < 8 \/ alu_op > 11
                          THEN write_register(c, rd, result) ELSE c, 4)
        EXCEPT !.cycle_count = @ + (IF rd = 15 THEN 1 + 2 ELSE 1)]

arm_data_processing_finish(c, rd, set_condition, alu_op, r, shifter_carry) ==
    arm_data_processing_store(
        arm_data_processing_flags(c, rd, set_condition, alu_op, r, shifter_carry),
        rd, alu_op, r.result)

arm_data_processing_operate(c, rd, set_condition, alu_op, operand1, sh) ==
    arm_data_processing_finish(c, rd, set_condition, alu_op,
        arm_data_processing_alu(c, alu_op, operand1, sh.val), sh.carry)

arm_data_processing(c, opc) ==
    LET rd == Field(opc, 12, \hF)
        rn == Field(opc, 16, \hF)
        operand1 == IF rn = 15 THEN Add32(read_register(c, rn), U32(8))
                    ELSE read_register(c, rn)
        set_condition == Test(opc, W(\h0010, 0))
        alu_op == Field(opc, 21, \hF)
        i == Test(opc, W(\h0200, 0))
    IN  arm_data_processing_operate(c, rd, set_condition, alu_op, operand1,
                                    alu_operand2_calc(c, i, opc[2]))

arm_branch(c, opc) ==
    LET link == Test(opc, W(\h0100, 0))
        off0 == Shl32(And32(opc, W(\h00FF, \hFFFF)), 2)
        offset == IF off0[1] >= \h0200 THEN Or32(off0, W(\hFC00, 0)) ELSE off0
        target == Add32(Add32(get_program_counter(c), U32(8)), offset)
        c1 == IF link THEN write_register(c, 14, Add32(get_program_counter(c), U32(4)))
              ELSE c
        c2 == set_program_counter(c1, target)
    IN  [c2 EXCEPT !.cycle_count = @ + 3]

arm_mrs(c, opc) ==
    LET rd == Field(opc, 12, \hF)
        source_spsr == Test(opc, W(\h0040, 0))
        psr_val == IF source_spsr THEN c.regs_spsr[get_mode(c)] ELSE c.reg_cpsr
        c1 == write_register(c, rd, psr_val)
        c2 == step_program_counter(c1, 4)
    IN  [c2 EXCEPT !.cycle_count = @ + 1]

arm_msr(c, opc) ==
    LET dest_spsr == Test(opc, W(\h0040, 0))
        rm == Field(opc, 0, \hF)
        rm_val == read_register(c, rm)
        c1 == IF dest_spsr THEN [c EXCEPT !.regs_spsr[get_mode(c)] = rm_val]
              ELSE IF get_mode(c) = MODE_USER
              THEN [c EXCEPT !.reg_cpsr =
                        Or32(And32(@, W(\h0FFF, \hFFFF)), And32(rm_val, W(\hF000, 0)))]
              ELSE [c EXCEPT !.reg_cpsr = rm_val]
        c2 == step_program_counter(c1, 4)
    IN  [c2 EXCEPT !.cycle_count = @ + 1]

arm_branch_exchange(c, opc) ==
    LET rm == Field(opc, 0, \hF)
        rm_val == read_register(c, rm)
        thumb == And32(rm_val, U32(1)) = U32(1)
        c1 == set_thumb(c, thumb)
        c2 == IF thumb THEN set_program_counter(c1, And32(rm_val, W(\hFFFF, \hFFFE)))
              ELSE set_program_counter(c1, rm_val)
    IN  [c2 EXCEPT !.cycle_count = @ + 3]

\* cpu.rs:2916-2929
arm_block_data_transfer_done(c) ==
    IF c.unwound THEN c ELSE step_program_counter(c, 4)

arm_block_data_transfer(c, opc) ==
    arm_block_data_transfer_done(
        operation_ldm_stm(c, Field(opc, 16, \hF), opc[2], Test(opc, W(\h0010, 0)),
                          Test(opc, W(\h0020, 0)), Test(opc, W(\h0100, 0)),
                          Test(opc, W(\h0080, 0)), Test(opc, W(\h0040, 0))))

\* cpu.rs:2821-2914: STRH / LDRH / LDRSB Rd, [Rn, #offset]; the store writes
\* the halfword as a whole word
arm_halfword_data_transfer_imm_offset(base, up, offset) ==
    IF up THEN Add32(base, U32(offset)) ELSE Sub32(base, U32(offset))

\* the match on (s, h) at the address base
arm_halfword_data_transfer_imm_access(c, s_bit, h, is_load, rd, base) ==
    CASE ~s_bit /\ ~h -> rust_panic(c)
      [] ~s_bit /\ h ->
            IF ~is_load THEN write_u32(c, TRUE, base, W(0, read_register(c, rd)[2]))
            ELSE Then(read_u32(c, TRUE, base).cpu,
                      LAMBDA x : write_register(x, rd, W(0, read_u32(c, TRUE, base).val[2])))
      [] s_bit /\ ~h ->
            Then(read_u8(c, TRUE, base).cpu,
                 LAMBDA x : write_register(x, rd,
                    IF read_u8(c, TRUE, base).val \in 1..127
                    THEN W(0, read_u8(c, TRUE, base).val)
                    ELSE W(\hFFFF, \hFF00 + read_u8(c, TRUE, base).val)))
      [] OTHER -> rust_panic(c)

arm_halfword_data_transfer_imm_done(c, rn, rd, is_load, write_back, pre, base) ==
    IF c.unwound THEN c
    ELSE [step_program_counter(IF write_back \/ ~pre THEN write_register(c, rn, base) ELSE c, 4)
            EXCEPT !.cycle_count = @ + (CASE ~is_load -> 2
                                          [] is_load /\ rd # 15 -> 3
                                          [] OTHER -> 3 + 2)]

arm_halfword_data_transfer_imm_at(c, opc, rn, rd, is_load, up, pre, offset, base) ==
    arm_halfword_data_transfer_imm_done(
        arm_halfword_data_transfer_imm_access(c, Test(opc, W(0, \h40)), Test(opc, W(0, \h20)),
            is_load, rd,
            IF pre THEN arm_halfword_data_transfer_imm_offset(base, up, offset) ELSE base),
        rn, rd, is_load, Test(opc, W(\h0020, 0)), pre,
        arm_halfword_data_transfer_imm_offset(base, up, offset))

arm_halfword_data_transfer_imm(c, opc) ==
    arm_halfword_data_transfer_imm_at(c, opc, Field(opc, 16, \hF), Field(opc, 12, \hF),
        Test(opc, W(\h0010, 0)), Test(opc, W(\h0080, 0)), Test(opc, W(\h0100, 0)),
        BitOr(BitAnd(Shr32(opc, 4)[2], \hF0), opc[2] % 16),
        IF Field(opc, 16, \hF) = 15 THEN Add32(read_register(c, 15), U32(8))
        ELSE read_register(c, Field(opc, 16, \hF)))

execute_arm(c, opc) ==
    LET instr == Field(opc, 20, \hFF)
        cond == Field(opc, 28, \hF)
        c0 == should_execute_effect(c, cond)
    IN  IF ~should_execute(c, cond) THEN
            [step_program_counter(c0, 4) EXCEPT !.cycle_count = @ + 1]
        ELSE
        CASE instr \in \h00..\h3F ->
               IF opcode_match(opc, ARM_MASK_MUL_CLR, ARM_MASK_MUL_SET)
                   THEN outside_model(c0)
               ELSE IF opcode_match(opc, ARM_MASK_MUL_LONG_CLR, ARM_MASK_MUL_LONG_SET)
                   THEN rust_panic(c0)
               ELSE IF opcode_match(opc, ARM_MASK_SNGL_SWP_CLR, ARM_MASK_SNGL_SWP_SET)
                   THEN rust_panic(c0)
               ELSE IF opcode_match(opc, ARM_MASK_BX_CLR, ARM_MASK_BX_SET)
                   THEN arm_branch_exchange(c0, opc)
               ELSE IF opcode_match(opc, ARM_MASK_HW_REG_CLR, ARM_MASK_HW_REG_SET)
                   THEN rust_panic(c0)
               ELSE IF opcode_match(opc, ARM_MASK_HW_IMM_CLR, ARM_MASK_HW_IMM_SET)
                   THEN arm_halfword_data_transfer_imm(c0, opc)
               ELSE IF opcode_match(opc, ARM_MASK_MRS_CLR, ARM_MASK_MRS_SET)
                   THEN arm_mrs(c0, opc)
               ELSE IF opcode_match(opc, ARM_MASK_MSR_CLR, ARM_MASK_MSR_SET)
                   THEN arm_msr(c0, opc)
               ELSE IF opcode_match(opc, ARM_MASK_MSR_BITS_CLR, ARM_MASK_MSR_BITS_SET)
                   THEN rust_panic(c0)
               ELSE arm_data_processing(c0, opc)
          [] instr \in \h40..\h7F ->
               IF opcode_match(opc, ARM_MASK_UNDEF_CLR, ARM_MASK_UNDEF_SET)
                   THEN rust_panic(c0)
               ELSE outside_model(c0)
          [] instr \in \h80..\h9F -> arm_block_data_transfer(c0, opc)
          [] instr \in \hA0..\hBF -> arm_branch(c0, opc)
          [] instr \in \hC0..\hEF -> rust_panic(c0)
          [] instr \in \hF0..\hFF -> rust_panic(c0)

-----------------------------------------------------------------------------
(* Firmware services and the compact-form decoder.                         *)

syscall_halt(c) == [c EXCEPT !.halt = TRUE]

syscall_intr_wait(c) ==
    LET discard == BitAnd(read_register(c, 0)[2], 1) = 1
        r1 == read_register(c, 1)[2]
    IN  IF ~discard THEN rust_panic(c)
        ELSE [c EXCEPT !.io_ime = BitOr(@, 1), !.io_bios_if = r1, !.halt = TRUE]

syscall_vblank_intr_wait(c) ==
    syscall_intr_wait(write_register(write_register(c, 0, U32(1)), 1, U32(1)))

\* `as i32` and `as u32` between a register value and a signed integer
as_i32(w) == IF w[1] >= 32768 THEN (w[1] - 65536) * 65536 + w[2] ELSE w[1] * 65536 + w[2]

as_u32(x) == W((x \div 65536) % 65536, x % 65536)

i32_MIN == (-32768) * 65536

\* i32 `/` for a divisor that is not 0 and a quotient that fits: the
\* quotient rounded towards zero
i32_div(n, d) ==
    CASE d = i32_MIN -> IF n = i32_MIN THEN 1 ELSE 0
      [] d > 0 -> IF n >= 0 \/ n % d = 0 THEN n \div d ELSE (n \div d) + 1
      [] OTHER -> -(IF n >= 0 \/ n % (-d) = 0 THEN n \div (-d) ELSE (n \div (-d)) + 1)

\* i32 `%`: what the division leaves, with the sign of the dividend
i32_rem(n, d) == n - i32_div(n, d) * d

\* i32::abs as a release build computes it (i32::MIN stays)
i32_abs(q) == IF q >= 0 \/ q = i32_MIN THEN q ELSE -q

syscall_div_results(c, number, div) ==
    write_register(write_register(write_register(c,
        0, as_u32(i32_div(number, div))), 1, as_u32(i32_rem(number, div))),
        2, as_u32(i32_abs(i32_div(number, div))))

\* cpu.rs:1209-1222; a division by zero and i32::MIN / -1 are Rust panics
syscall_div_of(c, number, div) ==
    IF div = 0 \/ (number = i32_MIN /\ div = -1) THEN rust_panic(c)
    ELSE syscall_div_results(c, number, div)

syscall_div(c) == syscall_div_of(c, as_i32(read_register(c, 0)), as_i32(read_register(c, 1)))

bios_syscall(c, syscall) ==
    CASE syscall = 2 -> syscall_halt(c)
      [] syscall = 4 -> syscall_intr_wait(c)
      [] syscall = 5 -> syscall_vblank_intr_wait(c)
      [] syscall = 6 -> syscall_div(c)
      [] syscall \in {1, 7, 11, 12} -> outside_model(c)
      [] OTHER -> rust_panic(c)

operation_swi(c, syscall) ==
    [bios_syscall(c, syscall) EXCEPT !.cycle_count = @ + 3]

thumb_swi(c, opc) ==
    step_program_counter(operation_swi(c, opc % 256), 2)

\* a value of the given width with its sign bit copied upwards
sign_extended_from(val, bits) ==
    IF bits = 8 THEN (IF val[2] % 256 >= 128 THEN W(\hFFFF, \hFF00 + (val[2] % 256))
                      ELSE W(0, val[2] % 256))
    ELSE (IF val[2] >= 32768 THEN W(\hFFFF, val[2]) ELSE W(0, val[2]))

\* cpu.rs:1741-1802: STRH / LDRH / LDSB / LDSH Rd, [Rb, Ro]; the store
\* rewrites the whole word at the address with its upper half as read
thumb_load_store_sign_extended_byte_halfword_with(c, rd, sign_extended, h_flag, addr, got) ==
    IF got.cpu.unwound THEN got.cpu
    ELSE CASE ~sign_extended /\ ~h_flag ->
                write_u32(got.cpu, TRUE, addr, W(got.val[1], read_register(got.cpu, rd)[2]))
           [] ~sign_extended /\ h_flag -> write_register(got.cpu, rd, W(0, got.val))
           [] sign_extended /\ ~h_flag ->
                write_register(got.cpu, rd, sign_extended_from(got.val, 8))
           [] OTHER -> write_register(got.cpu, rd, sign_extended_from(got.val, 16))

thumb_load_store_sign_extended_byte_halfword_done(c, sign_extended, h_flag) ==
    IF c.unwound THEN c
    ELSE [step_program_counter(c, 2)
            EXCEPT !.cycle_count = @ + (IF ~sign_extended /\ ~h_flag THEN 2 ELSE 3)]

thumb_load_store_sign_extended_byte_halfword_at(c, rd, sign_extended, h_flag, addr) ==
    thumb_load_store_sign_extended_byte_halfword_done(
        thumb_load_store_sign_extended_byte_halfword_with(c, rd, sign_extended, h_flag, addr,
            IF ~sign_extended /\ h_flag THEN read_u16(c, TRUE, addr)
            ELSE read_u32(c, TRUE, addr)),
        sign_extended, h_flag)

\* Format 8
thumb_load_store_sign_extended_byte_halfword(c, opc) ==
    thumb_load_store_sign_extended_byte_halfword_at(c, opc % 8,
        BitAnd(opc, \h400) # 0, BitAnd(opc, \h800) # 0,
        Add32(read_register(c, (opc \div 8) % 8), read_register(c, (opc \div 64) % 8)))

\* cpu.rs:1843-1879: STRH / LDRH Rd, [Rb, #offset]; the store rewrites the
\* whole word at the address with its upper half as read
thumb_load_store_halfword_done(c, is_load) ==
    IF c.unwound THEN c
    ELSE [step_program_counter(c, 2) EXCEPT !.cycle_count = @ + (IF is_load THEN 3 ELSE 2)]

thumb_load_store_halfword_with(rd, is_load, addr, got) ==
    IF got.cpu.unwound THEN got.cpu
    ELSE thumb_load_store_halfword_done(
            IF is_load THEN write_register(got.cpu, rd, W(0, got.val[2]))
            ELSE write_u32(got.cpu, TRUE, addr,
                           W(got.val[1], read_register(got.cpu, rd)[2])),
            is_load)

thumb_load_store_halfword_at(c, rd, is_load, addr) ==
    thumb_load_store_halfword_with(rd, is_load, addr, read_u32(c, TRUE, addr))

thumb_load_store_halfword(c, opc) ==
    thumb_load_store_halfword_at(c, opc % 8, (opc \div 2048) % 2 = 1,
        Add32(read_register(c, (opc \div 8) % 8), U32(((opc \div 64) % 32) * 2)))

\* cpu.rs:1960-2009: PUSH {Rlist, LR?} is STMDB R13!, POP {Rlist, PC?} is
\* LDMIA R13!; a pop of the PC does not step it
thumb_push_pop_done(c, is_load, store_lr) ==
    IF c.unwound \/ (is_load /\ store_lr) THEN c ELSE step_program_counter(c, 2)

thumb_push_pop_list(low, is_load, store_lr) ==
    CASE ~is_load /\ store_lr -> low + 16384
      [] is_load /\ store_lr -> low + 32768
      [] OTHER -> low

thumb_push_pop_with(c, r_list, is_load, store_lr) ==
    thumb_push_pop_done(
        IF is_load THEN operation_ldm_stm(c, 13, r_list, is_load, TRUE, FALSE, TRUE, FALSE)
        ELSE operation_ldm_stm(c, 13, r_list, is_load, TRUE, TRUE, FALSE, FALSE),
        is_load, store_lr)

thumb_push_pop(c, opc) ==
    thumb_push_pop_with(c,
        thumb_push_pop_list(opc % 256, (opc \div 2048) % 2 = 1, (opc \div 256) % 2 = 1),
        (opc \div 2048) % 2 = 1, (opc \div 256) % 2 = 1)

\* cpu.rs:2012-2036: STMIA Rb!, {Rlist} / LDMIA Rb!, {Rlist}
thumb_multiple_load_store_done(c) ==
    IF c.unwound THEN c ELSE step_program_counter(c, 2)

thumb_multiple_load_store(c, opc) ==
    thumb_multiple_load_store_done(
        operation_ldm_stm(c, (opc \div 256) % 8, opc % 256, (opc \div 2048) % 2 = 1,
                          TRUE, FALSE, TRUE, FALSE))

\* cpu.rs:697-712
ALU_AND == 0
ALU_EOR == 1
ALU_SUB == 2
ALU_RSB == 3
ALU_ADD == 4
ALU_ADC == 5
ALU_SBC == 6
ALU_RSC == 7
ALU_TST == 8
ALU_TEQ == 9
ALU_CMP == 10
ALU_CMN == 11
ALU_ORR == 12
ALU_MOV == 13
ALU_BIC == 14
ALU_MVN == 15

-----------------------------------------------------------------------------
(* The ALU shared by the compact-form executors (cpu.rs:2238-2393): the    *)
(* tuple (result, N, Z, C, V) as a record.                                 *)

Flags(result, carry, overflow) ==
    [result |-> result, n |-> Bit31(result), z |-> result = W(0, 0),
     carry |-> carry, overflow |-> overflow]

alu_tst(c, operand1, operand2) ==
    Flags(And32(operand1, operand2), get_flag_c(c), get_flag_v(c))

\* the early return of ALU_CMP (cpu.rs:2246-2256)
alu_cmp(operand1, operand2) ==
    Flags(Sub32(operand1, operand2), ~Sub32c(operand1, operand2).carry,
          (Bit31(operand1) # Bit31(operand2))
              /\ (Bit31(operand2) = Bit31(Sub32(operand1, operand2))))

\* the early return of ALU_CMN (cpu.rs:2257-2267)
alu_cmn(operand1, operand2) ==
    Flags(Add32(operand1, operand2), Add32c(operand1, operand2).carry,
          (Bit31(operand1) = Bit31(operand2))
              /\ (Bit31(operand2) # Bit31(Add32(operand1, operand2))))

\* the arms whose overflow is the sign change of a against the result
alu_arith(result, a, carry) == Flags(result, carry, Bit31(Xor32(a, result)))

alu_logic(result) == Flags(result, FALSE, FALSE)

\* ALU_SBC and ALU_RSC: a - (b + C - 1), carry the union of the three steps
alu_sbc(a, b, cin) ==
    alu_arith(Sub32(a, Sub32(Add32(b, cin), U32(1))), a,
              Add32c(b, cin).carry \/ Sub32c(Add32(b, cin), U32(1)).carry
                \/ Sub32c(a, Sub32(Add32(b, cin), U32(1))).carry)

alu(c, alu_op, operand1, operand2) ==
    CASE alu_op = ALU_TST -> alu_tst(c, operand1, operand2)
      [] alu_op = ALU_CMP -> alu_cmp(operand1, operand2)
      [] alu_op = ALU_CMN -> alu_cmn(operand1, operand2)
      [] alu_op = ALU_AND -> alu_logic(And32(operand1, operand2))
      [] alu_op \in {ALU_EOR, ALU_TEQ} -> alu_logic(Xor32(operand1, operand2))
      [] alu_op = ALU_SUB ->
            alu_arith(Sub32(operand1, operand2), operand1,
                      ~Sub32c(operand1, operand2).carry)
      [] alu_op = ALU_RSB ->
            alu_arith(Sub32(operand2, operand1), operand2,
                      ~Sub32c(operand2, operand1).carry)
      [] alu_op = ALU_ADD ->
            alu_arith(Add32(operand1, operand2), operand1,
                      Add32c(operand1, operand2).carry)
      [] alu_op = ALU_ADC ->
            alu_arith(Add32(Add32(operand1, U32(IF get_flag_c(c) THEN 1 ELSE 0)), operand2),
                      operand1,
                      Add32c(operand1, U32(IF get_flag_c(c) THEN 1 ELSE 0)).carry
                        \/ Add32c(Add32(operand1, U32(IF get_flag_c(c) THEN 1 ELSE 0)),
                                  operand2).carry)
      [] alu_op = ALU_SBC ->
            alu_sbc(operand1, operand2, U32(IF get_flag_c(c) THEN 1 ELSE 0))
      [] alu_op = ALU_RSC ->
            alu_sbc(operand2, operand1, U32(IF get_flag_c(c) THEN 1 ELSE 0))
      [] alu_op = ALU_ORR -> alu_logic(Or32(operand1, operand2))
      [] alu_op = ALU_MOV -> alu_logic(operand2)
      [] alu_op = ALU_BIC -> alu_logic(And32(operand1, Not32(operand2)))
      [] alu_op = ALU_MVN -> alu_logic(Not32(operand2))

\* self.set_flag_n(n); set_flag_z(z); set_flag_c(c); set_flag_v(v)
set_flags_nzcv(c, r) ==
    set_flag_v(set_flag_c(set_flag_z(set_flag_n(c, r.n), r.z), r.carry), r.overflow)

-----------------------------------------------------------------------------
(* Compact-form arithmetic (cpu.rs:1320-1661): formats 1 to 5.             *)

\* (rs_val >> k) & 1 != 0, the shift amount taken modulo 32 as a release
\* build does
BitAt(w, k) == Shr32(w, k % 32)[2] % 2 = 1

\* the pair (res, carry) of the match on op (cpu.rs:1328-1365)
thumb_move_shifted_register_shift(op_, rs_val, offset) ==
    CASE op_ = 0 ->
            [val |-> Shl32(rs_val, offset), carry |-> BitAt(rs_val, 32 - offset)]
      [] op_ = 1 ->
            [val |-> Shr32(rs_val, offset),
             carry |-> IF offset = 0 THEN FALSE ELSE BitAt(rs_val, offset - 1)]
      [] op_ = 2 ->
            [val |-> Asr32(rs_val, offset),
             carry |-> IF offset = 0 THEN FALSE ELSE BitAt(rs_val, offset - 1)]
      [] OTHER -> [val |-> W(0, 0), carry |-> TRUE]

thumb_move_shifted_register_done(c, rd, offset, op_, sh) ==
    [step_program_counter(
        IF offset # 0
        THEN set_flag_c(set_flag_z(set_flag_n(write_register(c, rd, sh.val),
                                              Bit31(sh.val)),
                                   sh.val = W(0, 0)),
                        sh.carry)
        ELSE set_flag_z(set_flag_n(write_register(c, rd, sh.val), Bit31(sh.val)),
                        sh.val = W(0, 0)),
        2)
     EXCEPT !.cycle_count = @ + 1 + 1, !.panic = IF op_ = 3 THEN TRUE ELSE @]

\* Format 1
thumb_move_shifted_register(c, opc) ==
    thumb_move_shifted_register_done(c, opc % 8, (opc \div 64) % 32, (opc \div 2048) % 4,
        thumb_move_shifted_register_shift((opc \div 2048) % 4,
                                          read_register(c, (opc \div 8) % 8),
                                          (opc \div 64) % 32))

thumb_add_subtract_done(c, rd, r) ==
    [step_program_counter(set_flags_nzcv(write_register(c, rd, r.result), r), 2)
        EXCEPT !.cycle_count = @ + 1]

\* Format 2
thumb_add_subtract(c, opc) ==
    thumb_add_subtract_done(c, opc % 8,
        alu(c, IF BitAnd(opc, \h200) # 0 THEN ALU_SUB ELSE ALU_ADD,
            read_register(c, (opc \div 8) % 8),
            IF BitAnd(opc, \h400) # 0 THEN U32((opc \div 64) % 8)
            ELSE read_register(c, (opc \div 64) % 8)))

thumb_mov_cmp_add_sub_imm_done(c, rd, op_, r) ==
    [step_program_counter(
        IF op_ # 1 THEN write_register(set_flags_nzcv(c, r), rd, r.result)
        ELSE set_flags_nzcv(c, r), 2)
     EXCEPT !.cycle_count = @ + 1]

\* Format 3
thumb_mov_cmp_add_sub_imm(c, opc) ==
    thumb_mov_cmp_add_sub_imm_done(c, (opc \div 256) % 8, (opc \div 2048) % 4,
        CASE (opc \div 2048) % 4 = 0 -> alu(c, ALU_MOV, U32(0), U32(opc % 256))
          [] (opc \div 2048) % 4 = 1 ->
                alu(c, ALU_CMP, read_register(c, (opc \div 256) % 8), U32(opc % 256))
          [] (opc \div 2048) % 4 = 2 ->
                alu(c, ALU_ADD, read_register(c, (opc \div 256) % 8), U32(opc % 256))
          [] OTHER ->
                alu(c, ALU_SUB, read_register(c, (opc \div 256) % 8), U32(opc % 256)))

\* u32::wrapping_mul
Mul16(a, b) == (a * (b % 256) + ((a * (b \div 256)) % 256) * 256) % 65536

wrapping_mul(a, b) ==
    Add32(Add32(U32(a[2] * (b[2] % 256)), Shl32(U32(a[2] * (b[2] \div 256)), 8)),
          W((Mul16(a[1], b[2]) + Mul16(a[2], b[1])) % 65536, 0))

\* the tuple of the match on op (cpu.rs:1493-1550); a register-specified
\* amount is the low byte of Rs in alu_operand2_calc and the whole of Rs in
\* the LSL arm, whose shifts are those of a release build
thumb_alu_result(c, op_, rd, rs, rd_val, rs_val) ==
    CASE op_ = 2 ->
            [result |-> Shl32(rd_val, rs_val[2] % 32),
             n |-> Bit31(Shl32(rd_val, rs_val[2] % 32)),
             z |-> Shl32(rd_val, rs_val[2] % 32) = W(0, 0),
             carry |-> IF rs_val = W(0, 0) THEN FALSE
                       ELSE BitAt(rd_val, (32 - (rs_val[2] % 32)) % 32),
             overflow |-> rs_val[1] # 0 \/ rs_val[2] >= 32]
      [] op_ \in {3, 4, 7} ->
            alu(c, ALU_MOV, rd_val,
                alu_operand2_calc(c, FALSE,
                    \h10 + 32 * (CASE op_ = 3 -> 1 [] op_ = 4 -> 2 [] OTHER -> 3)
                        + rs * 256 + rd).val)
      [] op_ = 9 -> alu(c, ALU_RSB, rs_val, U32(0))
      [] op_ = ALU_TST -> alu_tst(c, rd_val, rs_val)
      [] op_ = 13 ->
            [result |-> wrapping_mul(rs_val, rd_val),
             n |-> Bit31(wrapping_mul(rs_val, rd_val)),
             z |-> wrapping_mul(rs_val, rd_val) = W(0, 0),
             carry |-> get_flag_c(c), overflow |-> get_flag_v(c)]
      [] OTHER -> alu(c, op_, rd_val, rs_val)

thumb_alu_done(c, rd, op_, r) ==
    [step_program_counter(
        IF op_ \notin {ALU_TST, ALU_CMP, ALU_CMN}
        THEN write_register(set_flags_nzcv(c, r), rd, r.result)
        ELSE set_flags_nzcv(c, r), 2)
     EXCEPT !.cycle_count = @ + (IF rd = 15 THEN 1 + 2 ELSE 1)]

\* Format 4
thumb_alu(c, opc) ==
    thumb_alu_done(c, opc % 8, (opc \div 64) % 16,
        thumb_alu_result(c, (opc \div 64) % 16, opc % 8, (opc \div 8) % 8,
                         read_register(c, opc % 8), read_register(c, (opc \div 8) % 8)))

\* the value read for a register of format 5: both reads test rs against 15
thumb_hi_register_op_bx_read(c, rs, register) ==
    IF rs = 15
    THEN And32(Add32(read_register(c, register), U32(4)), W(\hFFFF, \hFFFE))
    ELSE read_register(c, register)

\* the CMP arm (cpu.rs:1613-1625): the four results all go to set_flag_n
thumb_hi_register_op_bx_cmp(c, r) ==
    set_flag_n(set_flag_n(set_flag_n(set_flag_n(c, r.n), r.z), r.carry), r.overflow)

thumb_hi_register_op_bx_done(c, rd, op_, cycles) ==
    [(IF rd # 15 \/ op_ = 1 THEN step_program_counter(c, 2) ELSE c)
        EXCEPT !.cycle_count = @ + cycles]

thumb_hi_register_op_bx_with(c, rd, op_, rd_val, rs_val) ==
    CASE op_ = 0 ->
            thumb_hi_register_op_bx_done(write_register(c, rd, Add32(rd_val, rs_val)),
                                         rd, op_, 0)
      [] op_ = 1 ->
            thumb_hi_register_op_bx_done(
                thumb_hi_register_op_bx_cmp(c, alu(c, ALU_CMP, rd_val, rs_val)),
                rd, op_, 0)
      [] op_ = 2 -> thumb_hi_register_op_bx_done(write_register(c, rd, rs_val), rd, op_, 0)
      [] OTHER ->
            [set_program_counter(set_thumb(c, rs_val[2] % 2 = 1),
                                 IF rs_val[2] % 2 = 1
                                 THEN And32(rs_val, W(\hFFFF, \hFFFE)) ELSE rs_val)
                EXCEPT !.cycle_count = @ + 3]

\* Format 5
thumb_hi_register_op_bx(c, opc) ==
    thumb_hi_register_op_bx_with(c,
        (opc % 8) + (IF BitAnd(opc, \h80) # 0 THEN 8 ELSE 0), (opc \div 256) % 4,
        thumb_hi_register_op_bx_read(c,
            ((opc \div 8) % 8) + (IF BitAnd(opc, \h40) # 0 THEN 8 ELSE 0),
            (opc % 8) + (IF BitAnd(opc, \h80) # 0 THEN 8 ELSE 0)),
        thumb_hi_register_op_bx_read(c,
            ((opc \div 8) % 8) + (IF BitAnd(opc, \h40) # 0 THEN 8 ELSE 0),
            ((opc \div 8) % 8) + (IF BitAnd(opc, \h40) # 0 THEN 8 ELSE 0)))

\* opc is the u16 the scheduler passes (opcode as u16)
execute_thumb(c, opc) ==
    LET high == opc \div 256
    IN  CASE high = \hDF -> thumb_swi(c, opc)
          [] high \in \h00..\h17 -> thumb_move_shifted_register(c, opc)
          [] high \in \h18..\h1F -> thumb_add_subtract(c, opc)
          [] high \in \h20..\h3F -> thumb_mov_cmp_add_sub_imm(c, opc)
          [] high \in \h40..\h43 -> thumb_alu(c, opc)
          [] high \in \h44..\h47 -> thumb_hi_register_op_bx(c, opc)
          [] high \in {\h52, \h53, \h56, \h57, \h5A, \h5B, \h5E, \h5F} ->
                thumb_load_store_sign_extended_byte_halfword(c, opc)
          [] high \in \h80..\h8F -> thumb_load_store_halfword(c, opc)
          [] high \in {\hB4, \hB5, \hBC, \hBD} -> thumb_push_pop(c, opc)
          [] high \in \hC0..\hCF -> thumb_multiple_load_store(c, opc)
          [] high \in \hB1..\hB3 \/ high \in \hB6..\hBB \/ high \in {\hBE, \hBF}
                \/ high \in \hE8..\hEF ->
                [c EXCEPT !.panic = TRUE]
          [] OTHER -> outside_model(c)

execute(c, opc) ==
    IF is_thumb(c) THEN execute_thumb(c, opc[2]) ELSE execute_arm(c, opc)

-----------------------------------------------------------------------------
(* Driving the CPU directly, as the unit tests of cpu.rs do                *)
(* (cpu.rs:3217-4400): a CPU is set up, then methods are called on it.     *)

MaxCalls == 2

Modes == {MODE_USER, MODE_FIQ, MODE_IRQ, MODE_SUPERVISOR, MODE_ABORT,
          MODE_UNDEFINED, MODE_SYSTEM}

Sources == {IRQ_VBLANK, IRQ_HBLANK, IRQ_VCOUNT, IRQ_TIM0, IRQ_TIM1, IRQ_TIM2,
            IRQ_TIM3, IRQ_SERIAL, IRQ_DMA0, IRQ_DMA1, IRQ_DMA2, IRQ_DMA3,
            IRQ_KEYPAD, IRQ_GAMEPAK, IRQ_DEBUG1, IRQ_DEBUG2}

\* a status word: flags f = NZCV as a nibble, mask bit i, encoding bit t, mode m
Status(f, i, t, m) ==
    W(f * \h1000, BitOr(BitOr(IF i THEN \h80 ELSE 0, IF t THEN \h20 ELSE 0),
                        BitOr(\h10, m)))

\* a register file in which every physical slot holds a value of its own
cpu_with_registers(c) ==
    [c EXCEPT !.registers = [i \in 0..15 |-> W(\h0200 + i, 16 * i)],
              !.regs_fiq = [i \in 0..6 |-> W(\h0210 + i, \h1000 + 16 * i)],
              !.regs_svc = [i \in 0..1 |-> W(\h0220 + i, \h2000 + 16 * i)],
              !.regs_abt = [i \in 0..1 |-> W(\h0230 + i, \h3000 + 16 * i)],
              !.regs_irq = [i \in 0..1 |-> W(\h0240 + i, \h4000 + 16 * i)],
              !.regs_und = [i \in 0..1 |-> W(\h0250 + i, \h5000 + 16 * i)],
              !.regs_spsr = [i \in 0..15 |-> W(\h0260 + i, \h10 + (i % 16))]]

\* a CPU in status word status, at address pcv, halted or not
cpu_at(status, pcv, halted) ==
    LET c1 == cpu_with_registers(reset(cpu_new))
        c2 == [c1 EXCEPT !.reg_cpsr = status, !.halt = halted]
    IN  set_program_counter(c2, pcv)

Called(name, arg) == [name |-> name, arg |-> arg, pre |-> cpu]

NoCall == [name |-> "none", arg |-> <<>>, pre |-> <<>>]

Idle ==
    /\ dbg = [opcode |-> W(0, 0), free_run |-> TRUE, paused |-> FALSE,
              lockstep |-> FALSE, instruction_counter |-> 0,
              input_mode |-> "DEBUGGER"]
    /\ timer_scanline = 0
    /\ dt_cycles = 0
    /\ lcd_pause = FALSE
    /\ previous_pc = W(\h0800, 0)
    /\ opcode = W(0, 0)
    /\ program_counter = W(\h0800, 0)
    /\ events = 0
    /\ pc = "test"
    /\ rounds = 0
    /\ game = channel_new
    /\ shared = shared_new
    /\ op = NoCall

CallUpTo(limit, c, name, arg) ==
    /\ pc = "test"
    /\ rounds < limit
    /\ ~cpu.unwound
    /\ ~c.outside
    /\ cpu' = c
    /\ rounds' = rounds + 1
    /\ op' = Called(name, arg)
    /\ UNCHANGED sched_vars

Call(c, name, arg) == CallUpTo(MaxCalls, c, name, arg)

TriggerIrqCall == \E s \in Sources : Call(trigger_irq(cpu, s), "trigger_irq", <<s>>)

ExecuteCall(opcodes) ==
    \E opc \in opcodes : Call(execute(cpu, opc), "execute", <<opc>>)

WriteRegisterCall(values) ==
    \E k \in 0..15, v \in values :
        Call(write_register(cpu, k, v), "write_register", <<k, v>>)

\* a data-processing opcode from its fields
DataProcessing(cond, i, alu_op, s, rn, rd, op2) ==
    W(cond * \h1000 + (IF i THEN \h200 ELSE 0) + (alu_op \div 8) * \h100
        + (alu_op % 8) * \h20 + (IF s THEN \h10 ELSE 0) + rn,
      rd * \h1000 + op2)

\* S-bit data-processing instructions writing R15: AND, SUB (SUBS PC, LR, #4),
\* ADD, CMP, MOV and MVN of LR and an immediate, and MOVS PC, LR under
\* condition NE and under condition AL
ReturnOpcodes ==
    {DataProcessing(14, TRUE, a, TRUE, 14, 15, 4) : a \in {0, 2, 4, 10, 13, 15}}
        \cup {DataProcessing(cond, FALSE, 13, TRUE, 0, 15, 14) : cond \in {1, 14}}

\* status words: every mode in both encodings, with flags, interrupt mask
\* and halt flag in four combinations
StatusSamples ==
    {<<Status(x[1], x[2], t, m), x[3]>> :
        x \in {<<0, FALSE, FALSE>>, <<10, FALSE, TRUE>>,
                <<5, TRUE, TRUE>>, <<15, TRUE, FALSE>>},
        t \in BOOLEAN, m \in Modes}

IrqInit ==
    /\ cpu \in {cpu_at(st[1], W(\h0800, \h0100), st[2]) : st \in StatusSamples}
    /\ Idle

IrqNext == TriggerIrqCall \/ ExecuteCall(ReturnOpcodes)

SpecIrq == IrqInit /\ [][IrqNext]_vars

\* the specifications stay inside the code this model follows
InsideModel == ~cpu.outside

-----------------------------------------------------------------------------
(* Interrupt entry and return.                                             *)

\* C1: after trigger_irq(s), from any CPU state and for any source s, bit s
\* is set in IF, the halt flag is clear, the IRQ-mode saved status is the
\* CPSR from before the call, the CPSR has the interrupt mask set, mode IRQ
\* and the compact-encoding bit clear, R14 of the IRQ bank is the PC from
\* before the call plus 4, and the PC is 0x18.
C1_TriggerSequence ==
    op.name = "trigger_irq" =>
        /\ BitAnd(cpu.io_if, op.arg[1]) = op.arg[1]
        /\ cpu.halt = FALSE
        /\ cpu.regs_spsr[2] = op.pre.reg_cpsr
        /\ BitAnd(cpu.reg_cpsr[2], \h80) = \h80
        /\ BitAnd(cpu.reg_cpsr[2], \h1F) = \h12
        /\ BitAnd(cpu.reg_cpsr[2], \h20) = 0
        /\ cpu.regs_irq[1] = Add32(op.pre.registers[15], W(0, 4))
        /\ cpu.registers[15] = W(0, \h18)

\* trigger_irq(KEYPAD) has run on a halted CPU that was in FIQ mode, compact
\* encoding, interrupts unmasked, flags N and C set
C1_Witness ==
    /\ op.name = "trigger_irq"
    /\ op.arg = <<IRQ_KEYPAD>>
    /\ op.pre.halt
    /\ op.pre.reg_cpsr = W(\hA000, \h31)
    /\ cpu.regs_irq[1] = W(\h0800, \h0104)

\* C2: when trigger_irq has entered IRQ mode from a CPSR value c and the next
\* instruction executed is a wide-form data-processing instruction with the
\* S bit set and destination R15 whose condition passes, the CPSR after it
\* is exactly c.
C2_ReturnRestoresStatus ==
    [][(/\ op.name = "trigger_irq"
        /\ op'.name = "execute"
        /\ op'.arg[1] \in ReturnOpcodes
        /\ should_execute(cpu, op'.arg[1][1] \div \h1000))
            => cpu'.reg_cpsr = op.pre.reg_cpsr]_vars

\* SUBS PC, LR, #4 has run right after trigger_irq took a CPU out of
\* Supervisor mode, compact encoding, flags N and C set
C2_Witness ==
    /\ op.name = "execute"
    /\ op.arg = <<DataProcessing(14, TRUE, 2, TRUE, 14, 15, 4)>>
    /\ op.pre.reg_cpsr = W(0, \h92)
    /\ op.pre.registers[15] = W(0, \h18)
    /\ op.pre.regs_spsr[2] = W(\hA000, \h33)
    /\ cpu.reg_cpsr = W(\hA000, \h33)
    /\ cpu.registers[15] = W(\h0800, \h0104)

-----------------------------------------------------------------------------
(* Register file: writes and mode changes on a CPU in any mode.            *)

SetModeCall == \E m \in Modes : Call(set_mode(cpu, m), "set_mode", <<m>>)

RegisterValues == {W(\h1234, \h5677), W(\hFFFF, \hFFFE)}

RegInit ==
    /\ cpu \in {cpu_at(Status(0, TRUE, t, m), W(\h0800, \h0100), FALSE) :
                    t \in BOOLEAN, m \in Modes}
    /\ Idle

RegNext == WriteRegisterCall(RegisterValues) \/ SetModeCall

SpecReg == RegInit /\ [][RegNext]_vars

\* the bank that holds register k in mode m (spec 4.1): R8..R14 have a copy
\* of their own in FIQ, R13..R14 in Supervisor, Abort, IRQ and Undefined;
\* User and System share one bank
Bank(m, k) ==
    IF k \in 8..14 /\ m = 1 THEN "fiq"
    ELSE IF k \in 13..14 /\ m = 2 THEN "irq"
    ELSE IF k \in 13..14 /\ m = 3 THEN "svc"
    ELSE IF k \in 13..14 /\ m = 7 THEN "abt"
    ELSE IF k \in 13..14 /\ m = 11 THEN "und"
    ELSE "usr"

\* register k of c as mode m sees it
View(c, m, k) == read_register(set_mode(c, m), k)

ModeOf(c) == BitAnd(c.reg_cpsr[2], \hF)

\* a write to a slot that the writing mode does not share with mode m
\* leaves what mode m reads at that index unchanged
OtherBanksUntouched ==
    op.name = "write_register" =>
        \A m \in Modes :
            Bank(m, op.arg[1]) # Bank(ModeOf(op.pre), op.arg[1])
                => View(cpu, m, op.arg[1]) = View(op.pre, m, op.arg[1])

\* C6 as stated: in every mode and for every k in 0..15, read_register(k)
\* after write_register(k, v) returns v, and a write to a slot not shared
\* with mode m leaves mode m's view unchanged.
C6_RoundTripAllRegisters ==
    /\ op.name = "write_register" => read_register(cpu, op.arg[1]) = op.arg[2]
    /\ OtherBanksUntouched

\* C6, amended: in every mode, read_register(k) after write_register(k, v)
\* returns v for k in 0..14; for k = 15 it returns v with the low two bits
\* cleared in wide encoding and the low bit cleared in compact encoding; and
\* a write to a slot not shared with mode m leaves mode m's view unchanged.
C6_RoundTrip ==
    /\ op.name = "write_register" =>
            read_register(cpu, op.arg[1]) =
                IF op.arg[1] # 15 THEN op.arg[2]
                ELSE IF BitAnd(cpu.reg_cpsr[2], \h20) = 0
                     THEN W(op.arg[2][1], op.arg[2][2] - (op.arg[2][2] % 4))
                     ELSE W(op.arg[2][1], op.arg[2][2] - (op.arg[2][2] % 2))
    /\ OtherBanksUntouched

\* R13 was written in IRQ mode after a change of mode from Supervisor, and
\* Supervisor and User still see their own R13
C6_Witness ==
    /\ op.name = "write_register"
    /\ op.arg = <<13, W(\h1234, \h5677)>>
    /\ ModeOf(op.pre) = 2
    /\ rounds = 2
    /\ cpu.regs_irq[0] = W(\h1234, \h5677)
    /\ View(cpu, 3, 13) = W(\h0220, \h2000)
    /\ View(cpu, 0, 13) = W(\h020D, \h00D0)

-----------------------------------------------------------------------------
(* Condition field: one wide-form instruction under every flag nibble.     *)

MaxExecutes == 1

\* the low 28 bits of: MOV R0, #1; ADDS R1, R1, R2; B; BX R1; MSR CPSR, R0;
\* STR R0, [R1]; STMDB SP!, {R4, LR}; MUL R0, R1, R2
InstructionBodies ==
    {<<\h3A0, \h0001>>, <<\h091, \h1002>>, <<\hA00, \h0002>>, <<\h12F, \hFF11>>,
     <<\h129, \hF000>>, <<\h581, \h0000>>, <<\h92D, \h4010>>, <<\h000, \h0291>>}

ConditionalOpcodes ==
    {W(cond * \h1000 + b[1], b[2]) : cond \in 0..15, b \in InstructionBodies}

ExecuteOnce ==
    \E opc \in ConditionalOpcodes :
        CallUpTo(MaxExecutes, execute(cpu, opc), "execute", <<opc>>)

CondInit ==
    /\ cpu \in {cpu_at(Status(f, TRUE, FALSE, m), W(\h0800, \h0100), FALSE) :
                    f \in 0..15, m \in {MODE_USER, MODE_IRQ}}
    /\ Idle

CondNext == ExecuteOnce

SpecCond == CondInit /\ [][CondNext]_vars

\* the condition field of the opcode just executed fails under the flags
\* the CPU had before it, in wide encoding
Skipped ==
    /\ op.name = "execute"
    /\ BitAnd(op.pre.reg_cpsr[2], \h20) = 0
    /\ ~should_execute(op.pre, op.arg[1][1] \div \h1000)

\* C7 as stated: a wide-form opcode whose condition evaluates to false
\* changes no register other than the PC, no status word, no emulator flag
\* and no memory byte, and advances the PC by exactly 4 (the cycle counter
\* is none of these and is left free).
C7_SkipChangesNothing ==
    Skipped =>
        cpu = [op.pre EXCEPT !.registers[15] = Add32(@, W(0, 4)),
                             !.cycle_count = cpu.cycle_count]

\* C7, amended: a wide-form opcode whose condition evaluates to false
\* changes no register other than the PC, no status word, no memory byte
\* and no emulator flag other than the panic flag, which it sets when the
\* condition field is 0xF and leaves alone otherwise, and advances the PC
\* by exactly 4.
C7_SkipChangesOnlyPanic ==
    Skipped =>
        cpu = [op.pre EXCEPT !.registers[15] = Add32(@, W(0, 4)),
                             !.cycle_count = cpu.cycle_count,
                             !.panic = IF op.arg[1][1] \div \h1000 = 15
                                       THEN TRUE ELSE @]

\* STREQ R0, [R1] was skipped with Z clear (flags N and C set)
C7_Witness ==
    /\ op.name = "execute"
    /\ op.arg = <<W(\h0581, \h0000)>>
    /\ op.pre.reg_cpsr = W(\hA000, \h90)
    /\ cpu.registers[15] = W(\h0800, \h0104)
    /\ ~cpu.panic

-----------------------------------------------------------------------------
(* Memory bus: stores of each width on a CPU with a cartridge loaded.      *)

\* a cartridge image of two words
RomImage == <<\h01, \h00, \h8F, \hE2, \h10, \hFF, \h2F, \hE1>>

\* word-aligned addresses: both ends of Work RAM 1 and Work RAM 2, the
\* firmware-pending word, the scratch mirror, the cartridge and its mirrors
WordAddresses ==
    {W(\h0200, \h0000), W(\h0203, \hFFFC), W(\h0300, \h0000), W(\h0300, \h7FF8),
     W(\h0300, \h7FFC), W(\h03FF, \hFF00), W(\h03FF, \hFFFC),
     W(\h0800, \h0000), W(\h0800, \h0004), W(\h09FF, \hFFFC), W(\h0A00, \h0000),
     W(\h0DFF, \hFFFC)}

HalfwordAddresses ==
    {W(\h0200, \h0000), W(\h0203, \hFFFE), W(\h0300, \h7FFE), W(\h03FF, \hFFFE),
     W(\h0800, \h0002)}

ByteAddresses ==
    {W(\h0200, \h0001), W(\h0203, \hFFFF), W(\h0300, \h7FFF), W(\h03FF, \hFF00),
     W(\h03FF, \hFFFF), W(\h0800, \h0001), W(\h09FF, \hFFFC), W(\h0C00, \h0000)}

WriteU8Call ==
    \E intern \in BOOLEAN, a \in ByteAddresses \cup WordAddresses, v \in {\h12, \hFF} :
        Call(write_u8(cpu, intern, a, v), "write_u8", <<intern, a, v>>)

WriteU16Call ==
    \E a \in HalfwordAddresses, v \in {\h1234, \hFF00} :
        Call(write_u16(cpu, TRUE, a, v), "write_u16", <<TRUE, a, v>>)

WriteU32Call ==
    \E a \in WordAddresses, v \in {W(\h1234, \h5678), W(\hFFFF, \h00FF)} :
        Call(write_u32(cpu, FALSE, a, v), "write_u32", <<FALSE, a, v>>)

BusInit ==
    /\ cpu = load_rom(reset(cpu_new), RomImage)
    /\ Idle

BusNext == WriteU8Call \/ WriteU16Call \/ WriteU32Call

SpecBus == BusInit /\ [][BusNext]_vars

\* the address of the store just made, after the bus has masked it
Stored == BitAnd(op.arg[2][1], \h0FFF) * 65536 + op.arg[2][2]

\* Work RAM 1, Work RAM 2 and the scratch mirror (spec 3, memory map)
InRam(a) ==
    \/ a \in \h02000000..\h0203FFFF
    \/ a \in \h03000000..\h03007FFF
    \/ a \in \h03FFFF00..\h03FFFFFF

\* the cartridge and its mirrors (spec 3, memory map)
InCartridge(a) ==
    \/ a \in \h08000000..\h09FFFFFC
    \/ a \in \h0A000000..\h0BFFFFFC
    \/ a \in \h0C000000..\h0DFFFFFC

\* the read completed (no abort) and returned v
Reads(got, v) == ~got.cpu.unwound /\ got.val = v

\* C8: in Work RAM 1, Work RAM 2 and the scratch mirror, at an address
\* aligned for the width, an 8-, 16- or 32-bit store of v (the 16-bit one
\* made of two byte stores) followed by the load of the same width at the
\* same address returns v.  The firmware-pending word at 0x03007FF8, which
\* is not backing RAM, is left out for the 32-bit width.
C8_RamRoundTrip ==
    /\ (op.name = "write_u8" /\ InRam(Stored)) =>
            ~cpu.unwound /\ Reads(read_u8(cpu, FALSE, op.arg[2]), op.arg[3])
    /\ (op.name = "write_u16" /\ InRam(Stored) /\ Stored % 2 = 0) =>
            ~cpu.unwound /\ Reads(read_u16(cpu, FALSE, op.arg[2]), op.arg[3])
    /\ (op.name = "write_u32" /\ InRam(Stored) /\ Stored % 4 = 0
            /\ Stored # \h03007FF8) =>
            ~cpu.unwound /\ Reads(read_u32(cpu, FALSE, op.arg[2]), op.arg[3])

\* C9: an 8-bit or 32-bit store to a cartridge address (0x08000000 to
\* 0x09FFFFFC and its mirrors) returns with the panic flag set and every
\* byte of the cartridge image as it was.
C9_CartridgeReadOnly ==
    (op.name \in {"write_u8", "write_u32"} /\ InCartridge(Stored)) =>
        cpu.panic /\ ~cpu.unwound /\ cpu.rom = op.pre.rom

\* a 32-bit store to the mirror at 0x0A000000 was the first to set the panic
\* flag, on a CPU whose cartridge image begins with the byte 0x01
C9_Witness ==
    /\ op.name = "write_u32"
    /\ op.arg = <<FALSE, W(\h0A00, \h0000), W(\h1234, \h5678)>>
    /\ ~op.pre.panic
    /\ cpu.panic
    /\ cpu.rom[0] = 1

-----------------------------------------------------------------------------
(* debugger.rs: the key handling of the debugger build.  A build without   *)
(* the debugger feature never sees a key (debugger.rs:160-162).            *)

debugger_reset(d) ==
    [d EXCEPT !.instruction_counter = 0, !.free_run = FALSE, !.paused = TRUE,
              !.input_mode = "DEBUGGER"]

Answer(d, event) == [dbg |-> d, event |-> event]

\* one pass of the polling loop of update: key is the key read, or "none"
debugger_update(d, key) ==
    IF key = "none" THEN Answer(d, "None")
    ELSE IF key = "F1" THEN
        Answer([d EXCEPT !.input_mode = IF @ = "GAME" THEN "DEBUGGER" ELSE "GAME"],
               "None")
    ELSE IF d.input_mode # "DEBUGGER" THEN Answer(d, "None")
    ELSE CASE key = "q" -> Answer(d, "Quit")
           [] key = "Enter" -> Answer([d EXCEPT !.paused = FALSE], "None")
           [] key = "h" -> Answer([d EXCEPT !.free_run = ~@], "None")
           [] key = "l" -> Answer([d EXCEPT !.lockstep = ~@], "None")
           [] key = "F2" ->
                Answer([d EXCEPT !.free_run = TRUE, !.input_mode = "GAME"], "None")
           [] key = "r" -> Answer(debugger_reset(d), "Reset")
           [] key = "Backspace" -> Answer(d, "Back")
           [] OTHER -> Answer(d, "None")

-----------------------------------------------------------------------------
(* main.rs: the emulator loop (main.rs:177-433), one action per stretch of *)
(* the loop body between two points where the interrupt gate is asked or   *)
(* an event is taken.  The window thread sends at most one event per       *)
(* iteration; the breakpoint of main.rs:132 lies outside the cartridge     *)
(* image used here.                                                        *)

MaxIterations == 3
MaxEvents == 1

\* cartridge: ADD R0, PC, #1; BX R0; then compact code SWI 2; SWI 5; an
\* undefined opcode; SWI 5; SWI 2; an undefined opcode; the wide-form
\* word 0xF3A00001, whose condition field is 0xF; and compact code
\* STRH R1, [R2, #6]; STRH R1, [R2, #4]; an undefined opcode
Rom ==
    <<\h01, \h00, \h8F, \hE2, \h10, \hFF, \h2F, \hE1, \h02, \hDF, \h05, \hDF,
      \h00, \hB1, \h05, \hDF, \h02, \hDF, \h00, \hB1, \h01, \h00, \hA0, \hF3,
      \hD1, \h80, \h91, \h80, \h00, \hB1>>

\* firmware: SUBS PC, LR, #4 at the interrupt vector 0x18
Bios ==
    <<0, 0, 0, 0, 0, 0, 0, 0, 0, 0, 0, 0, 0, 0, 0, 0, 0, 0, 0, 0, 0, 0, 0, 0,
      \h04, \hF0, \h5E, \hE2>>

\* main.rs:179-200: the opcode at program, or the debugger's last one and the
\* panic flag where program is no valid address
half_word(got, upper) ==
    Got(got.cpu, IF upper THEN W(0, got.val[1]) ELSE W(0, got.val[2]))

fetch(c, d, program) ==
    IF ~addr_valid(program) THEN Got([c EXCEPT !.panic = TRUE], d.opcode)
    ELSE IF is_thumb(c)
         THEN half_word(read_u32(c, FALSE, And32(program, W(\hFFFF, \hFFFE))),
                        program[2] % 2 = 1)
         ELSE read_u32(c, FALSE, program)

Did(name, arg) == [name |-> name, arg |-> arg, pre |-> cpu]

Running == ~cpu.unwound /\ ~cpu.outside

Fetch ==
    /\ pc = "fetch"
    /\ rounds < MaxIterations
    /\ Running
    /\ \E got \in {fetch(cpu, dbg, get_program_counter(cpu))} :
        /\ cpu' = got.cpu
        /\ opcode' = got.val
        /\ dbg' = [dbg EXCEPT !.opcode = got.val]
    /\ program_counter' = get_program_counter(cpu)
    /\ rounds' = rounds + 1
    /\ pc' = "debugger"
    /\ op' = Did("fetch", <<get_program_counter(cpu)>>)
    /\ UNCHANGED <<shared, game, timer_scanline, dt_cycles, lcd_pause, previous_pc, events>>

\* the keys the build with the debugger feature reads (debugger.rs:283-335);
\* the plain build reads none (debugger.rs:160-162), its runs are those
\* where key is "none"
Keys == {"q", "Enter", "h", "l", "F2", "r", "Backspace", "F1"}

\* main.rs:213-226
debugger_event(c, event, previous) ==
    CASE event = "Reset" -> reset(load_rom(c, Rom))
      [] event = "Back" -> set_program_counter(c, previous)
      [] OTHER -> c

DebuggerUpdate ==
    /\ pc = "debugger"
    /\ Running
    /\ \E key \in Keys \cup {"none"} :
        /\ key # "none" => events < MaxEvents
        /\ events' = IF key = "none" THEN events ELSE events + 1
        /\ dbg' = debugger_update(dbg, key).dbg
        /\ cpu' = debugger_event(cpu, debugger_update(dbg, key).event, previous_pc)
        /\ pc' = IF debugger_update(dbg, key).event = "Quit" THEN "done" ELSE "window"
        /\ op' = IF debugger_update(dbg, key).event = "Reset"
                 THEN Did("reset", <<key>>) ELSE Did("debugger", <<key>>)
    /\ UNCHANGED <<shared, game, timer_scanline, dt_cycles, lcd_pause, previous_pc, opcode,
                   program_counter, rounds>>

WindowEvents ==
    {<<"None">>, <<"Quit">>, <<"ButtonPress", 1>>, <<"ButtonRelease", 1>>,
     <<"Pause", TRUE>>, <<"Pause", FALSE>>, <<"NextVCount">>, <<"ForceRender">>,
     <<"Debug", 1>>, <<"Debug", 2>>, <<"Debug", 3>>}

debug_stop(d) == [d EXCEPT !.free_run = FALSE, !.paused = TRUE, !.lockstep = TRUE]

\* main.rs:230-295, the arms that touch the CPU
window_event_cpu(c, event) ==
    CASE event[1] = "ButtonPress" -> [c EXCEPT !.keypad = keypad_press(@, event[2])]
      [] event[1] = "ButtonRelease" -> [c EXCEPT !.keypad = keypad_release(@, event[2])]
      [] event[1] = "ForceRender" -> [c EXCEPT !.lcd = set_vcount(@, 227)]
      [] event = <<"Debug", 1>> -> trigger_irq(c, IRQ_VBLANK)
      [] event = <<"Debug", 2>> -> trigger_irq(c, IRQ_HBLANK)
      [] OTHER -> c

WindowEvent ==
    /\ pc = "window"
    /\ Running
    /\ \E event \in WindowEvents :
        /\ event # <<"None">> => events < MaxEvents
        /\ events' = IF event = <<"None">> THEN events ELSE events + 1
        /\ cpu' = window_event_cpu(cpu, event)
        /\ dbg' = IF event[1] = "Debug" THEN debug_stop(dbg) ELSE dbg
        /\ lcd_pause' = IF event[1] = "Pause" THEN event[2] ELSE lcd_pause
        /\ timer_scanline' = IF event[1] \in {"NextVCount", "ForceRender"}
                             THEN 1232 ELSE timer_scanline
        /\ pc' = IF event = <<"Quit">> THEN "done" ELSE "exec"
        /\ op' = CASE event = <<"Debug", 1>> -> Did("trigger_irq", <<IRQ_VBLANK, "Debug">>)
                   [] event = <<"Debug", 2>> -> Did("trigger_irq", <<IRQ_HBLANK, "Debug">>)
                   [] OTHER -> Did("window", event)
    /\ UNCHANGED <<shared, game, dt_cycles, previous_pc, opcode, program_counter, rounds>>

\* main.rs:301 without its test of the panic flag
should_step_in_panic(c, d) == ~d.paused \/ d.free_run

\* main.rs:301
should_step(c, d) == ~c.panic /\ (~d.paused \/ d.free_run)

\* main.rs:306
should_execute_now(c) == ~c.halt \/ (c.halt /\ get_mode(c) = MODE_IRQ)

Stepped(c, dma, executed, cycles) ==
    [cpu |-> c, dma |-> dma, executed |-> executed, cycles |-> cycles]

\* main.rs:331-334: c2 is the CPU after execute, cycles the counter before
executed(c2, dma, cycles) == Stepped(c2, dma, TRUE, c2.cycle_count - cycles)

\* main.rs:306-340, after the transfer (if any) left the CPU as c1
step_execute(c1, dma, opc, dt) ==
    IF c1.unwound \/ c1.outside THEN Stepped(c1, dma, FALSE, dt)
    ELSE IF should_execute_now(c1)
         THEN executed(execute(c1, opc), dma, c1.cycle_count)
         ELSE Stepped([c1 EXCEPT !.cycle_count = @ + 1], dma, FALSE, dt)

\* main.rs:302-304
step_dma(c, found, opc, dt) ==
    IF found.unwound THEN Stepped(rust_panic(c), -1, FALSE, dt)
    ELSE IF found.num # -1 THEN step_execute(dma_run(c, found.num), found.num, opc, dt)
    ELSE step_execute(c, -1, opc, dt)

\* main.rs:301-345: the CPU after, the channel that ran (or -1), whether an
\* instruction was executed, and the new dt_cycles
step(c, d, opc, dt) ==
    IF should_step(c, d) THEN step_dma(c, dma_check(c), opc, dt)
    ELSE Stepped(c, -1, FALSE, dt)

Step ==
    /\ pc = "exec"
    /\ Running
    /\ \E done \in {step(cpu, dbg, opcode, dt_cycles)} :
        /\ ~done.cpu.outside
        /\ cpu' = done.cpu
        /\ dt_cycles' = done.cycles
        /\ previous_pc' = IF done.executed THEN program_counter ELSE previous_pc
        /\ dbg' = [dbg EXCEPT
                    !.instruction_counter = IF done.executed THEN @ + 1 ELSE @,
                    !.paused = IF should_step(cpu, dbg) /\ ~dbg.free_run
                               THEN TRUE ELSE @]
        /\ op' = Did("step", <<done.dma, done.executed>>)
    /\ pc' = "timer"
    /\ UNCHANGED <<shared, game, timer_scanline, lcd_pause, opcode, program_counter, events, rounds>>

\* main.rs:355-362: the scanline timer, and the next scanline when it is due
\* main.rs:364-393: game_tx.send(RenderMessage {..}), the message numbered
game_send(g) ==
    [g EXCEPT !.sent = @ + 1, !.channel = Append(@, g.sent + 1)]

\* main.rs:363-394: the frame-ready message at scanline 0
frame_ready(g, vcount) == IF vcount = 0 THEN game_send(g) ELSE g

\* main.rs:355-362: the scanline timer, and the next scanline when it is due
Timer ==
    /\ pc = "timer"
    /\ Running
    /\ LET timer == IF ~lcd_pause THEN timer_scanline + dt_cycles ELSE timer_scanline
       IN  IF timer >= 1232
           THEN /\ timer_scanline' = timer - 1232
                /\ cpu' = [cpu EXCEPT !.lcd = increment_vcount(@)]
                /\ game' = frame_ready(game, get_vcount(cpu'.lcd))
                /\ pc' = IF get_vcount(cpu'.lcd) = 160 THEN "vblank" ELSE "vcount"
                /\ op' = Did("scanline", <<get_vcount(cpu'.lcd)>>)
           ELSE /\ timer_scanline' = timer
                /\ cpu' = cpu
                /\ game' = game
                /\ pc' = "hblank"
                /\ op' = Did("timer", <<timer>>)
    /\ UNCHANGED <<shared, dbg, dt_cycles, lcd_pause, previous_pc, opcode, program_counter,
                   events, rounds>>

\* main.rs:139-162: one pass of the loop of the window thread that finds a
\* message; msg is not drawn when the window is paused, but it is taken
Renderer ==
    /\ game.channel # <<>>
    /\ game' = [game EXCEPT !.channel = Tail(@), !.received = Append(@, Head(game.channel))]
    /\ UNCHANGED <<shared, cpu, dbg, timer_scanline, dt_cycles, lcd_pause, previous_pc, opcode,
                   program_counter, events, pc, rounds, op>>

\* a place of the loop where source irq is triggered if the gate allows it
\* (main.rs:396-403, 405-413, 422-427)
Gated(irq, asked, next) ==
    /\ Running
    /\ IF asked /\ can_irq_trigger(cpu, irq)
       THEN cpu' = trigger_irq(cpu, irq) /\ op' = Did("trigger_irq", <<irq, "gate">>)
       ELSE cpu' = cpu /\ op' = Did("no_irq", <<irq>>)
    /\ pc' = next
    /\ rounds' = rounds
    /\ UNCHANGED <<shared, game, dbg, timer_scanline, dt_cycles, lcd_pause, previous_pc, opcode,
                   program_counter, events>>

VBlankIrq == pc = "vblank" /\ Gated(IRQ_VBLANK, dbg.free_run, "vcount")

VCountIrq ==
    /\ pc = "vcount"
    /\ Gated(IRQ_VCOUNT, dbg.free_run /\ get_dispstat_vcount_flag(cpu.lcd), "hblank")

\* main.rs:419-421
HBlank ==
    /\ pc = "hblank"
    /\ Running
    /\ cpu' = [cpu EXCEPT !.lcd = set_dispstat_hblank(@, timer_scanline > 1006)]
    /\ pc' = IF timer_scanline <= 1006 THEN "fetch" ELSE "hblank_irq"
    /\ op' = Did("hblank", <<timer_scanline > 1006>>)
    /\ UNCHANGED <<shared, game, dbg, timer_scanline, dt_cycles, lcd_pause, previous_pc, opcode,
                   program_counter, events, rounds>>

HBlankIrq == pc = "hblank_irq" /\ Gated(IRQ_HBLANK, dbg.free_run, "fetch")

\* The emulator at the top of a loop iteration.  Boot is the state main
\* builds (main.rs:45-47, 125, 170-175).  The other starts are points of a
\* run of the cartridge: the interrupt and display control words and the DMA
\* registers hold what its start-up code stored through the bus, the CPU has
\* followed the BX into compact code, and the scanline timer is short of its
\* next event.

Boot == load_rom(load_bios(reset(cpu_new), Bios), Rom)

io_setup(c, ie, ime, stat, lyc) ==
    write_u8(write_u8(write_u8(write_u32(c, FALSE, W(\h0400, \h0200), W(0, ie)),
                               FALSE, W(\h0400, \h0208), ime),
                      FALSE, W(\h0400, \h0004), stat),
             FALSE, W(\h0400, \h0005), lyc)

\* DMA channel 0: one halfword from Work RAM 1 to dest, started at once
dma0_setup(c, dest) ==
    write_u32(write_u32(write_u32(c, FALSE, W(\h0400, \h00B0), W(\h0200, \h0000)),
                        FALSE, W(\h0400, \h00B4), dest),
              FALSE, W(\h0400, \h00B8), W(\h8000, \h0001))

running_at(c, status, addr, vcount) ==
    set_program_counter(
        [c EXCEPT !.reg_cpsr = status, !.registers[0] = W(\h0800, \h0009),
                  !.cycle_count = 4, !.lcd = set_vcount(@, vcount)],
        addr)

debugger_new(feature) ==
    [opcode |-> W(0, 0), free_run |-> ~feature, paused |-> feature,
     lockstep |-> FALSE, instruction_counter |-> 0, input_mode |-> "DEBUGGER"]

Start(c, d, timer, dt) ==
    [cpu |-> c, dbg |-> d, timer_scanline |-> timer, dt_cycles |-> dt]

\* IE, IME, display status low byte, CPSR interrupt mask
IrqSetups == {<<0, 0, 0, TRUE>>, <<\h2007, 1, \h38, FALSE>>, <<7, 0, \h38, TRUE>>}

\* scanline timer, scanline, scanline compared
Times == {<<1230, 159, 160>>, <<1005, 0, 160>>, <<1230, 99, 100>>}

WaitStarts ==
    {Start(running_at(io_setup(Boot, q[1], q[2], q[3], t[3]),
                      Status(0, q[4], TRUE, MODE_SYSTEM), W(\h0800, a), t[2]),
           [debugger_new(FALSE) EXCEPT !.instruction_counter = 2], t[1], 3) :
        q \in IrqSetups, t \in Times, a \in {\h0008, \h000A}}

DmaSetups == {W(0, 0), W(\h0200, \h0010), W(\h0800, \h0000)}

\* starts at an undefined compact opcode, at the wide-form word with
\* condition field 0xF, and at an address that is none of the bus
FaultStarts ==
    {Start(running_at(IF dest = W(0, 0) THEN Boot ELSE dma0_setup(Boot, dest),
                      Status(0, TRUE, a[1], MODE_SYSTEM), a[2], 0),
           [debugger_new(FALSE) EXCEPT !.instruction_counter = 2], 0, 3) :
        dest \in DmaSetups,
        a \in {<<TRUE, W(\h0800, \h000C)>>, <<FALSE, W(\h0800, \h0014)>>,
               <<FALSE, W(\h0100, \h0000)>>}}

\* starts at the two stores into the display registers, R2 holding the base
\* of the I/O window and R1 the halfword to store, outside and inside the
\* vertical blank
StoreStarts ==
    {Start([running_at(io_setup(Boot, 0, 0, v[2], 160),
                       Status(0, TRUE, TRUE, MODE_SYSTEM), W(\h0800, a), v[1])
                EXCEPT !.registers[1] = W(0, val), !.registers[2] = W(\h0400, 0)],
           [debugger_new(FALSE) EXCEPT !.instruction_counter = 2], t, 3) :
        v \in {<<0, 0>>, <<200, 1>>}, a \in {\h0018, \h001A},
        val \in {0, \h00F0, \hA001}, t \in {0, 1003}}

BootStarts == {Start(Boot, debugger_new(feature), 0, 0) : feature \in BOOLEAN}

Init ==
    /\ \E start \in BootStarts \cup WaitStarts \cup FaultStarts \cup StoreStarts :
        /\ cpu = start.cpu
        /\ dbg = start.dbg
        /\ timer_scanline = start.timer_scanline
        /\ dt_cycles = start.dt_cycles
    /\ lcd_pause = FALSE
    /\ previous_pc = W(\h0800, 0)
    /\ opcode = W(0, 0)
    /\ program_counter = W(\h0800, 0)
    /\ events = 0
    /\ pc = "fetch"
    /\ rounds = 0
    /\ game = channel_new
    /\ shared = shared_new
    /\ op = NoCall

Next ==
    \/ Fetch
    \/ DebuggerUpdate
    \/ WindowEvent
    \/ Step
    \/ Timer
    \/ VBlankIrq
    \/ VCountIrq
    \/ HBlank
    \/ HBlankIrq
    \/ Renderer

Spec == Init /\ [][Next]_vars

-----------------------------------------------------------------------------
(* The interrupt gate, the halt flag and the panic flag over runs of the   *)
(* emulator loop.  op names the step that led to the state and op.pre      *)
(* holds the CPU before it.                                                *)

Acted == op.name # "none"

InIE(c, s) == BitAnd(c.io_ie, s) = s
MasterEnabled(c) == c.io_ime % 2 = 1
MaskClear(c) == (c.reg_cpsr[2] \div 128) % 2 = 0
InPending(c, s) == BitAnd(c.io_bios_if, s) = s

SourceEnabled(c, s) ==
    CASE s = IRQ_VBLANK -> (get_dispstat(c.lcd) \div 8) % 2 = 1
      [] s = IRQ_HBLANK -> (get_dispstat(c.lcd) \div 16) % 2 = 1
      [] s = IRQ_VCOUNT -> (get_dispstat(c.lcd) \div 32) % 2 = 1
      [] s = IRQ_KEYPAD -> (c.keypad.keycnt \div 16384) % 2 = 1
      [] OTHER -> TRUE

GatedTrigger == op.name = "trigger_irq" /\ op.arg[2] = "gate"

\* C3 as stated: whenever can_irq_trigger(s) is true, and whenever the
\* scheduler runs the trigger sequence for a source s, bit s is set in IE,
\* bit 0 of the master-enable word is set, the mask bit of the CPSR is clear
\* and the source's own enable is set.
C3_GateAllFour ==
    /\ \A s \in Sources :
        can_irq_trigger(cpu, s) =>
            InIE(cpu, s) /\ MasterEnabled(cpu) /\ MaskClear(cpu) /\ SourceEnabled(cpu, s)
    /\ GatedTrigger =>
        /\ InIE(op.pre, op.arg[1]) /\ MasterEnabled(op.pre)
        /\ MaskClear(op.pre) /\ SourceEnabled(op.pre, op.arg[1])

\* C3, amended: whenever can_irq_trigger(s) is true, and whenever the
\* scheduler runs the trigger sequence for a source s, bit s is set in IE and
\* the source's own enable is set, and, unless the core is halted, bit 0 of
\* the master-enable word is set and the mask bit of the CPSR is clear.
C3_GateUnlessHalted ==
    /\ \A s \in Sources :
        can_irq_trigger(cpu, s) =>
            /\ InIE(cpu, s) /\ SourceEnabled(cpu, s)
            /\ ~cpu.halt => MasterEnabled(cpu) /\ MaskClear(cpu)
    /\ GatedTrigger =>
        /\ can_irq_trigger(op.pre, op.arg[1])
        /\ InIE(op.pre, op.arg[1]) /\ SourceEnabled(op.pre, op.arg[1])
        /\ ~op.pre.halt => MasterEnabled(op.pre) /\ MaskClear(op.pre)

\* the scheduler has delivered V-blank to a halted core whose master enable
\* is off and whose CPSR masks interrupts
C3_Witness ==
    /\ GatedTrigger
    /\ op.arg[1] = IRQ_VBLANK
    /\ op.pre.halt
    /\ ~MasterEnabled(op.pre)
    /\ ~MaskClear(op.pre)
    /\ InIE(op.pre, IRQ_VBLANK)

HaltCleared == Acted /\ op.pre.halt /\ ~cpu.halt

\* C4 as stated: in every step of a run (instruction step, scanline event,
\* frontend or debugger event, reset) the halt flag goes from set to clear
\* if and only if the step triggers an interrupt source that the gate allows.
C4_HaltClearedByAllowedTrigger ==
    Acted =>
        (HaltCleared <=>
            /\ op.pre.halt
            /\ op.name = "trigger_irq"
            /\ can_irq_trigger(op.pre, op.arg[1]))

\* C4, amended: the halt flag goes from set to clear in a step if and only
\* if the step runs the trigger sequence or is a reset; the triggers of the
\* scanline schedule run only for a source the gate allows.
C4_HaltClearedByTriggerOrReset ==
    Acted =>
        /\ HaltCleared <=> (op.pre.halt /\ op.name \in {"trigger_irq", "reset"})
        /\ GatedTrigger => can_irq_trigger(op.pre, op.arg[1])

\* the H-blank trigger of the scanline schedule has woken a halted core
C4_Witness ==
    /\ HaltCleared
    /\ GatedTrigger
    /\ op.arg[1] = IRQ_HBLANK

\* C5 as stated: while the core is halted with firmware-pending word m,
\* can_irq_trigger(s) is false for every source s whose bit is not set in m.
C5_PendingNarrows ==
    cpu.halt =>
        \A s \in Sources : ~InPending(cpu, s) => ~can_irq_trigger(cpu, s)

\* C5, amended: while the core is halted with a firmware-pending word m
\* other than zero, can_irq_trigger(s) is false for every source s whose bit
\* is not set in m.
C5_NonzeroPendingNarrows ==
    cpu.halt /\ cpu.io_bios_if # 0 =>
        \A s \in Sources : ~InPending(cpu, s) => ~can_irq_trigger(cpu, s)

\* after service 0x05 with V-blank and H-blank enabled in IE and in the
\* display status: V-blank passes the gate, H-blank does not
C5_Witness ==
    /\ op.name = "step"
    /\ op.arg[2]
    /\ ~op.pre.halt
    /\ cpu.halt
    /\ cpu.io_bios_if = IRQ_VBLANK
    /\ InIE(cpu, IRQ_VBLANK) /\ InIE(cpu, IRQ_HBLANK)
    /\ SourceEnabled(cpu, IRQ_VBLANK) /\ SourceEnabled(cpu, IRQ_HBLANK)
    /\ can_irq_trigger(cpu, IRQ_VBLANK)
    /\ ~can_irq_trigger(cpu, IRQ_HBLANK)

\* C10: a step of the loop that starts with the panic flag set executes no
\* instruction and starts no DMA transfer, and leaves the flag set unless it
\* is a reset; a reset clears the flag.
C10_PanicStopsStepping ==
    Acted =>
        /\ op.pre.panic /\ op.name = "step" => op.arg = <<-1, FALSE>> /\ cpu = op.pre
        /\ op.pre.panic /\ op.name # "reset" => cpu.panic
        /\ op.name = "reset" => ~cpu.panic

\* in a later iteration, with the flag set, the scheduler has passed over an
\* enabled DMA channel and the instruction, though the debugger lets it run
C10_Witness ==
    /\ op.name = "step"
    /\ op.pre.panic
    /\ cpu.panic
    /\ rounds >= 2
    /\ dbg.free_run
    /\ ~op.pre.halt
    /\ dma_check(op.pre).num = 0

-----------------------------------------------------------------------------
(* The DMA engine: dma_check and dma_run on descriptors that were          *)
(* programmed through the I/O window of the bus.                           *)

Channels == 0..3

MaxDmaCalls == 2

\* the longest transfer followed, in units
MaxUnits == 2

\* the I/O address of word k (0 source, 1 destination, 2 count and control)
\* of channel n
dma_register(n, k) == Add32(DMA_BASE, U32(n * 12 + 4 * k))

\* the stores that program channel n
program_channel(c, n, src, dest, count, control) ==
    write_u32(write_u32(write_u32(c, FALSE, dma_register(n, 0), src),
                        FALSE, dma_register(n, 1), dest),
              FALSE, dma_register(n, 2), W(control, count))

\* a control word from its fields
ControlWord(enable, irq, timing, word, repeat, src_ctrl, dest_ctrl) ==
    (IF enable THEN \h8000 ELSE 0) + (IF irq THEN \h4000 ELSE 0) + timing * \h1000
        + (IF word THEN \h400 ELSE 0) + (IF repeat THEN \h200 ELSE 0)
        + src_ctrl * \h80 + dest_ctrl * \h20

\* Work RAM 1 holds 0xDEADBEEF and 0x01234567 at its start
dma_memory ==
    write_u32(write_u32(Boot, FALSE, W(\h0200, 0), W(\hDEAD, \hBEEF)),
              FALSE, W(\h0200, 4), W(\h0123, \h4567))

\* control words of a scan: disabled, enabled with each timing, and a
\* disabled one with other bits set
ScanControls ==
    {0, ControlWord(FALSE, FALSE, 0, TRUE, TRUE, 0, 0)}
        \cup {ControlWord(TRUE, FALSE, t, TRUE, FALSE, 0, 0) : t \in {0, 1, 3}}

RECURSIVE program_scan(_, _, _)
program_scan(c, controls, n) ==
    IF n = 4 THEN c
    ELSE program_scan(program_channel(c, n, W(\h0200, 0), W(\h0300, 16 * n), 1,
                                      controls[n + 1]),
                      controls, n + 1)

ScanStarts ==
    {program_scan(dma_memory, ctl, 0) :
        ctl \in ScanControls \X ScanControls \X ScanControls \X ScanControls}

\* descriptors of one channel: from Work RAM 1 or the cartridge, to Work RAM
\* 2 or onto the channel's own count and control word, one or two units
RunControls ==
    {ControlWord(TRUE, irq, 0, word, repeat, sc, dc) :
        irq \in BOOLEAN, word \in BOOLEAN, repeat \in BOOLEAN,
        sc \in {0, 1, 3}, dc \in {0, 2, 3}}

RunStarts ==
    {program_channel(dma_memory, n, src, IF own THEN dma_register(n, 2) ELSE W(\h0300, 0),
                     count, control) :
        n \in Channels, src \in {W(\h0200, 0), W(\h0800, 0)}, own \in BOOLEAN,
        count \in 1..MaxUnits, control \in RunControls}


\* the control word of channel n as the descriptor holds it
Control(c, n) == c.dma[n * 12 + 10] + 256 * c.dma[n * 12 + 11]

DmaCheckCall ==
    \E found \in {dma_check(cpu)} :
        CallUpTo(MaxDmaCalls, IF found.unwound THEN rust_panic(cpu) ELSE cpu,
                 "dma_check", <<found.num>>)

\* the count of channel n as the descriptor holds it
Count(c, n) == c.dma[n * 12 + 8] + 256 * c.dma[n * 12 + 9]

\* main.rs:302-304 runs the channel dma_check found; here any enabled one
DmaRunCall ==
    \E n \in Channels :
        /\ Control(cpu, n) >= \h8000
        /\ Count(cpu, n) \in 1..MaxUnits
        /\ CallUpTo(MaxDmaCalls, dma_run(cpu, n), "dma_run", <<n>>)

DmaInit ==
    /\ cpu \in ScanStarts \cup RunStarts
    /\ Idle

DmaNext == DmaCheckCall \/ DmaRunCall

SpecDma == DmaInit /\ [][DmaNext]_vars

Enabled15(control) == (control \div 32768) % 2 = 1
Immediate(control) == (control \div 4096) % 4 = 0
Ready(c, n) == Enabled15(Control(c, n)) /\ Immediate(Control(c, n))

\* C11: for every content of the four control words, dma_check returns the
\* lowest-indexed channel that is enabled with timing immediate, and none
\* (here -1) when no channel is both; it returns in every case.
C11_LowestReadyChannel ==
    op.name = "dma_check" =>
        /\ ~cpu.unwound
        /\ IF \E n \in Channels : Ready(op.pre, n)
           THEN /\ op.arg[1] \in Channels
                /\ Ready(op.pre, op.arg[1])
                /\ \A m \in 0..(op.arg[1] - 1) : ~Ready(op.pre, m)
           ELSE op.arg[1] = -1

\* C12 as stated: when dma_run(n) completes, the control word of channel n
\* is the one from before the call with the enable bit cleared if the repeat
\* flag was clear, and the one from before the call if it was set.
C12_OnlyEnableBitChanges ==
    (op.name = "dma_run" /\ ~cpu.unwound) =>
        Control(cpu, op.arg[1]) =
            IF (Control(op.pre, op.arg[1]) \div 512) % 2 = 1
            THEN Control(op.pre, op.arg[1])
            ELSE Control(op.pre, op.arg[1]) % 32768

\* the destination of channel n's descriptor as the I/O window holds it
Destination(c, n) ==
    W(c.dma[n * 12 + 6] + 256 * c.dma[n * 12 + 7], c.dma[n * 12 + 4] + 256 * c.dma[n * 12 + 5])

\* the transfer stores nothing into the I/O window
OutsideIO(c, n) == Destination(c, n)[1] % \h1000 # \h0400

\* C12, amended: the same, for descriptors whose destination is not in the
\* I/O window, where the channel's own control word lies.
C12_EnableBitUnlessOverwritten ==
    (op.name = "dma_run" /\ ~cpu.unwound /\ OutsideIO(op.pre, op.arg[1])) =>
        Control(cpu, op.arg[1]) =
            IF (Control(op.pre, op.arg[1]) \div 512) % 2 = 1
            THEN Control(op.pre, op.arg[1])
            ELSE Control(op.pre, op.arg[1]) % 32768

\* channel 0 copied one word from the cartridge to 0x03000000 and its enable
\* bit went from set to clear
C12_Witness ==
    /\ op.name = "dma_run"
    /\ op.arg[1] = 0
    /\ ~cpu.unwound
    /\ Control(op.pre, 0) = ControlWord(TRUE, FALSE, 0, TRUE, FALSE, 0, 0)
    /\ Control(cpu, 0) = ControlWord(FALSE, FALSE, 0, TRUE, FALSE, 0, 0)
    /\ load32(cpu.ram_work2, 0) = load32(cpu.rom, 0)
    /\ load32(cpu.ram_work2, 0) # load32(op.pre.ram_work2, 0)

-----------------------------------------------------------------------------
(* Display timing over runs of the emulator loop.                          *)

VBlankBit(c) == get_dispstat(c.lcd) % 2 = 1
HBlankBit(c) == (get_dispstat(c.lcd) \div 2) % 2 = 1

\* C13: in every reachable state of the emulator the scanline counter is in
\* 0..227, a scanline advance from 227 leads to 0 (and from any other value
\* to the next), and the V-blank bit of the display status is set if and
\* only if the counter is in 160..226.
C13_ScanlineAndVBlank ==
    /\ get_vcount(cpu.lcd) \in 0..227
    /\ VBlankBit(cpu) <=> get_vcount(cpu.lcd) \in 160..226
    /\ op.name = "scanline" =>
            get_vcount(cpu.lcd) = (get_vcount(op.pre.lcd) + 1) % 228

\* the end of a loop iteration: the loop is back at its top
IterationEnd == pc = "fetch" /\ rounds > 0

\* C14: at the end of every loop iteration the position within the scanline
\* is in 0..1231 and the H-blank bit of the display status is set if and
\* only if the position is in 1006..1231.
C14_HBlankBit ==
    IterationEnd =>
        /\ timer_scanline \in 0..1231
        /\ HBlankBit(cpu) <=> timer_scanline \in 1006..1231

\* the frame-ready messages in the order they were sent
FramesSent == [i \in 1..game.sent |-> i]

\* C15: a step of the run sends one frame-ready message if it brings the
\* scanline counter to 0 from another value and none otherwise, and the
\* messages the renderer has received followed by those in flight are the
\* messages sent, in order, each once.
C15_OneFramePerScanlineZero ==
    /\ [](game.received \o game.channel = FramesSent)
    /\ [][game'.sent =
            IF get_vcount(cpu'.lcd) = 0 /\ get_vcount(cpu.lcd) # 0
            THEN game.sent + 1 ELSE game.sent]_vars

-----------------------------------------------------------------------------
(* The stack in the compact encoding, driven as the unit test              *)
(* thumb_push_pop does (cpu.rs:3931-3998): registers are written, then     *)
(* execute_thumb is called with push and pop opcodes.  op.last is the call *)
(* before the last one.                                                    *)

MaxStackCalls == 3

StackCall(c, name, arg) ==
    /\ pc = "test"
    /\ rounds < MaxStackCalls
    /\ ~cpu.unwound
    /\ ~c.outside
    /\ cpu' = c
    /\ rounds' = rounds + 1
    /\ op' = [name |-> name, arg |-> arg, pre |-> cpu, last |-> op]
    /\ UNCHANGED sched_vars

\* low bytes of the opcodes: {R0, R2} and {R0, R7}
StackLists == {\h05, \h81}

\* PUSH {list}, PUSH {list, LR}, POP {list}, POP {list, PC}
StackOpcodes == {high * 256 + low : high \in {\hB4, \hB5, \hBC, \hBD}, low \in StackLists}

ExecuteThumbCall ==
    \E opc \in StackOpcodes : StackCall(execute_thumb(cpu, opc), "execute_thumb", <<opc>>)

\* the test zeroes registers between the push and the pop
ZeroRegisterCall ==
    \E k \in {0, 2, 14} :
        StackCall(write_register(cpu, k, W(0, 0)), "write_register", <<k, W(0, 0)>>)

StackPointers == {W(\h0300, \h0010), W(\h0300, \h8000)}

LinkValues == {W(\hDEAD, \hBEEF), W(\h0800, \h0124)}

StackStatus == {Status(0, FALSE, TRUE, MODE_SYSTEM), Status(0, TRUE, TRUE, MODE_IRQ),
                Status(0, TRUE, FALSE, MODE_SUPERVISOR)}

stack_setup(c, sp, lr) ==
    write_register(write_register(write_register(write_register(c,
        0, W(0, \h0123)), 2, W(0, \h89AB)), 13, sp), 14, lr)

StackStarts ==
    {stack_setup(cpu_at(st, W(\h0800, \h0100), FALSE), sp, lr) :
        st \in StackStatus, sp \in StackPointers, lr \in LinkValues}

StackInit == Idle /\ cpu \in StackStarts

StackNext == ExecuteThumbCall \/ ZeroRegisterCall

SpecStack == StackInit /\ [][StackNext]_vars

IsPushLr(o) == o.name = "execute_thumb" /\ o.arg[1] \div 256 = \hB5

IsPopPc(o) == o.name = "execute_thumb" /\ o.arg[1] \div 256 = \hBD

\* the pop follows a push of the same list, with at most one register
\* zeroed in between
PopFollowsPush ==
    /\ IsPopPc(op)
    /\ \/ IsPushLr(op.last) /\ op.last.arg[1] % 256 = op.arg[1] % 256
       \/ /\ op.last.name = "write_register"
          /\ IsPushLr(op.last.last)
          /\ op.last.last.arg[1] % 256 = op.arg[1] % 256

PushBefore == IF IsPushLr(op.last) THEN op.last ELSE op.last.last

Listed(low) == {i \in 0..7 : (low \div (2 ^ i)) % 2 = 1}

\* the address of the slot register i of the list gets, the list pushed
\* from sp
Slot(sp, low, i) ==
    Add32(Sub32(sp, U32(4 * (count_ones(low) + 1))), U32(4 * count_ones(low % (2 ^ i))))

WordAt(c, addr) == read_u32(c, FALSE, addr).val

\* after PUSH {list, LR} from before: R13 and the stored words
Pushed(before, after, low) ==
    LET sp == read_register(before, 13)
    IN  /\ read_register(after, 13) = Sub32(sp, U32(4 * (count_ones(low) + 1)))
        /\ \A i \in Listed(low) : WordAt(after, Slot(sp, low, i)) = read_register(before, i)
        /\ WordAt(after, Sub32(sp, U32(4))) = read_register(before, 14)

\* after the POP {list, PC}: the registers and R13 as before the push
Restored(before, after, low) ==
    /\ \A i \in Listed(low) : read_register(after, i) = read_register(before, i)
    /\ read_register(after, 13) = read_register(before, 13)

StackInRam(sp, low) ==
    \A k \in 1..(count_ones(low) + 1) :
        LET a == mask_addr(Sub32(sp, U32(4 * k)))
        IN  a \in \h03000000..\h03007FFC /\ a # \h03007FF8

\* what write_register keeps of a value written to R15
Aligned(c, value) ==
    IF is_thumb(c) THEN And32(value, W(\hFFFF, \hFFFE)) ELSE And32(value, W(\hFFFF, \hFFFC))

-----------------------------------------------------------------------------
(* Block transfers, driven as the unit tests operation_ldmia and           *)
(* operation_stmdb do (cpu.rs:4166-4234): a base register and the memory   *)
(* around it are set up, then operation_ldm_stm is called.                 *)

MaxBlockCalls == 1

\* {}, {R0}, {R0, R2}, {R0, R13}, {R2, R15}, {R7, R14}
BlockLists == {0, \h0001, \h0005, \h2001, \h8004, \h4080}

BlockBases == {0, 13}

BlockTransferCall ==
    \E r_base \in BlockBases, r_list \in BlockLists, is_load \in BOOLEAN, wb \in BOOLEAN,
       pre \in BOOLEAN, up \in BOOLEAN, s_bit \in BOOLEAN :
        CallUpTo(MaxBlockCalls,
                 operation_ldm_stm(cpu, r_base, r_list, is_load, wb, pre, up, s_bit),
                 "operation_ldm_stm", <<r_base, r_list, is_load, wb, pre, up, s_bit>>)

\* R0 points into the second work RAM and R13 into the first; the bytes
\* around both are non-zero and differ from their neighbours
block_setup(c) ==
    [write_register(write_register(c, 0, W(\h0300, \h0100)), 13, W(\h0200, \h0040))
        EXCEPT !.ram_work2 = [i \in \hC0..\h13F |-> (i % 251) + 1],
               !.ram_work1 = [i \in \h00..\h7F |-> (i % 241) + 3]]

BlockStarts ==
    {block_setup(cpu_at(st, W(\h0800, \h0100), FALSE)) :
        st \in {Status(0, FALSE, FALSE, MODE_SYSTEM), Status(0, TRUE, FALSE, MODE_IRQ)}}

BlockInit == Idle /\ cpu \in BlockStarts

BlockNext == BlockTransferCall

SpecBlock == BlockInit /\ [][BlockNext]_vars

\* a call of operation_ldm_stm with writeback that returned
BlockTransferred ==
    /\ op.name = "operation_ldm_stm"
    /\ op.arg[4]
    /\ ~cpu.unwound

RegistersOf(r_list) == {i \in 0..15 : (r_list \div (2 ^ i)) % 2 = 1}

\* the lowest address of a transfer of n words at base
Lowest(base, n, pre, up) ==
    IF up THEN (IF pre THEN Add32(base, U32(4)) ELSE base)
    ELSE (IF pre THEN Sub32(base, U32(4 * n)) ELSE Sub32(base, U32(4 * n - 4)))

\* the address of the word of register i of the list
WordOf(base, r_list, pre, up, i) ==
    Add32(Lowest(base, count_ones(r_list), pre, up), U32(4 * count_ones(r_list % (2 ^ i))))

\* the n words of the transfer are words of the work RAMs
WordsInRam(base, r_list, pre, up) ==
    \A i \in RegistersOf(r_list) :
        LET a == mask_addr(WordOf(base, r_list, pre, up, i))
        IN  \/ a \in \h02000000..\h0203FFFC
            \/ a \in \h03000000..\h03007FFC /\ a # \h03007FF8

\* the bus addresses of the bytes that differ between two CPUs
ChangedBytes(before, after) ==
    {\h02000000 + i : i \in {j \in DOMAIN before.ram_work1 \cup DOMAIN after.ram_work1 :
                               load(before.ram_work1, j) # load(after.ram_work1, j)}}
    \cup
    {\h03000000 + i : i \in {j \in DOMAIN before.ram_work2 \cup DOMAIN after.ram_work2 :
                               load(before.ram_work2, j) # load(after.ram_work2, j)}}

BytesOf(base, r_list, pre, up) ==
    {mask_addr(WordOf(base, r_list, pre, up, i)) + k : i \in RegistersOf(r_list), k \in 0..3}

\* a store: each listed register's value is in its word, ascending, and no
\* other byte of memory and no register other than the base changed
StoredWords(before, after, r_base, r_list, pre, up) ==
    LET base == read_register(before, r_base)
    IN  /\ \A i \in RegistersOf(r_list) :
              WordAt(after, WordOf(base, r_list, pre, up, i)) = read_register(before, i)
        /\ ChangedBytes(before, after) \subseteq BytesOf(base, r_list, pre, up)
        /\ \A j \in (0..15) \ {r_base} : read_register(after, j) = read_register(before, j)

\* a load: each listed register other than the base holds its word (R15 as
\* write_register keeps it), no other register but the base changed, and
\* memory is as it was
LoadedWords(before, after, r_base, r_list, pre, up) ==
    LET base == read_register(before, r_base)
    IN  /\ \A i \in RegistersOf(r_list) \ {r_base} :
              read_register(after, i) =
                  IF i = 15 THEN Aligned(after, WordAt(before, WordOf(base, r_list, pre, up, i)))
                  ELSE WordAt(before, WordOf(base, r_list, pre, up, i))
        /\ \A j \in (0..15) \ (RegistersOf(r_list) \cup {r_base}) :
              read_register(after, j) = read_register(before, j)
        /\ ChangedBytes(before, after) = {}

BaseMoved(before, after, r_base, r_list, up) ==
    read_register(after, r_base) =
        IF up THEN Add32(read_register(before, r_base), U32(4 * count_ones(r_list)))
        ELSE Sub32(read_register(before, r_base), U32(4 * count_ones(r_list)))

-----------------------------------------------------------------------------
(* The signed-divide service, driven as the unit test syscall_div does     *)
(* (cpu.rs:4237-4249): r0 and r1 are written, then the service is called.  *)

MaxDivCalls == 1

\* -2^31, -2^31 + 1, -1234, -7, -1, 0, 1, 7, 1234, 2^31 - 1
Dividends == {W(\h8000, 0), W(\h8000, 1), W(\hFFFF, \hFB2E), W(\hFFFF, \hFFF9),
              W(\hFFFF, \hFFFF), W(0, 0), W(0, 1), W(0, 7), W(0, \h04D2),
              W(\h7FFF, \hFFFF)}

\* -2^31, -10, -2, -1, 0, 1, 2, 3, 10, 2^31 - 1
Divisors == {W(\h8000, 0), W(\hFFFF, \hFFF6), W(\hFFFF, \hFFFE), W(\hFFFF, \hFFFF),
             W(0, 0), W(0, 1), W(0, 2), W(0, 3), W(0, 10), W(\h7FFF, \hFFFF)}

DivStarts ==
    {write_register(write_register(cpu_at(Status(0, FALSE, TRUE, MODE_SYSTEM),
                                          W(\h0800, \h0100), FALSE), 0, n), 1, d) :
        n \in Dividends, d \in Divisors}

BiosSyscallCall ==
    \E syscall \in {6} :
        CallUpTo(MaxDivCalls, bios_syscall(cpu, syscall), "bios_syscall", <<syscall>>)

DivInit == Idle /\ cpu \in DivStarts

DivNext == BiosSyscallCall

SpecDiv == DivInit /\ [][DivNext]_vars

\* the service was called with a divisor that is not zero
Divided ==
    /\ op.name = "bios_syscall"
    /\ op.arg[1] = 6
    /\ read_register(op.pre, 1) # W(0, 0)

\* C18: for every dividend n in r0 and non-zero divisor d in r1 the service
\* returns with r0 = q, r1 = r and r2 = |q|, where q * d + r = n, r is
\* smaller than d in magnitude and has the sign of n
C18_DivReconstructs ==
    Divided =>
        /\ ~cpu.unwound
        /\ as_i32(read_register(cpu, 0)) * as_i32(read_register(op.pre, 1))
              + as_i32(read_register(cpu, 1)) = as_i32(read_register(op.pre, 0))
        /\ read_register(cpu, 2) =
              IF as_i32(read_register(cpu, 0)) >= 0 THEN read_register(cpu, 0)
              ELSE Sub32(W(0, 0), read_register(cpu, 0))
        /\ LET r == as_i32(read_register(cpu, 1))
               n == as_i32(read_register(op.pre, 0))
               d == as_i32(read_register(op.pre, 1))
           IN  /\ r = 0 \/ (r > 0 /\ n > 0) \/ (r < 0 /\ n < 0)
               /\ d = i32_MIN \/ (IF r >= 0 THEN r ELSE -r) < (IF d >= 0 THEN d ELSE -d)

-----------------------------------------------------------------------------
(* The firmware-pending word behind 0x03007FF8 (cpu.rs:252-258, 481-493):  *)
(* stores of both widths at that address and at the word after it, on a    *)
(* CPU whose firmware-pending word has a value.                            *)

BIOS_IF == W(\h0300, \h7FF8)

PendingValues == {\h0000, \h0001, \h2005, \hFFFF}

PendingAddresses == {BIOS_IF, W(\h0300, \h7FFC)}

PendingWriteU32Call ==
    \E intern \in BOOLEAN, a \in PendingAddresses,
       v \in {W(0, \h0001), W(\h0001, \h2004), W(\hFFFF, \hFFFF)} :
        Call(write_u32(cpu, intern, a, v), "write_u32", <<intern, a, v>>)

PendingWriteU16Call ==
    \E a \in PendingAddresses, v \in {\h0001, \h2004, \hFFFF} :
        Call(write_u16(cpu, TRUE, a, v), "write_u16", <<TRUE, a, v>>)

PendingInit ==
    /\ \E p \in PendingValues : cpu = [reset(cpu_new) EXCEPT !.io_bios_if = p]
    /\ Idle

PendingNext == PendingWriteU32Call \/ PendingWriteU16Call

SpecPending == PendingInit /\ [][PendingNext]_vars

\* C19: a 32-bit and a 16-bit load at 0x03007FF8 return the firmware-pending
\* word p, and a 32-bit or 16-bit store of w there (the 16-bit one made of
\* two byte stores) leaves p AND NOT w as the firmware-pending word
C19_PendingSideChannel ==
    /\ Reads(read_u32(cpu, FALSE, BIOS_IF), W(0, cpu.io_bios_if))
    /\ Reads(read_u16(cpu, FALSE, BIOS_IF), cpu.io_bios_if)
    /\ (op.name = "write_u32" /\ op.arg[2] = BIOS_IF) =>
            cpu.io_bios_if = BitAnd(op.pre.io_bios_if, BitNot16(op.arg[3][2]))
    /\ (op.name = "write_u16" /\ op.arg[2] = BIOS_IF) =>
            cpu.io_bios_if = BitAnd(op.pre.io_bios_if, BitNot16(op.arg[3]))

-----------------------------------------------------------------------------
(* The shared buffers.  The emulator thread reaches palette, video and     *)
(* object memory through the bus, each arm taking the buffer's mutex       *)
(* (cpu.rs:117-119, 186-197, 334-350, 426-428, 585-605); the window        *)
(* thread takes all three for the call of draw (main.rs:152-159).  A       *)
(* lock() on a mutex another thread holds blocks: the step is not enabled. *)

MaxAccesses == 2
MaxFrames == 1

\* the order in which the arguments of window.draw are evaluated
window_draw_locks_no_oam == <<"vram", "palette">>

window_draw_locks == <<"vram", "palette", "oam">>

BusKinds == {"read_u8", "write_u8", "read_u32", "write_u32"}

\* the byte offsets an access touches, in the order of the code
bus_offsets(kind) ==
    IF kind \in {"read_u32", "write_u32"} THEN <<3, 2, 1, 0>> ELSE <<0>>

mutex_lock(s, b, thread) == [s EXCEPT !.owner[b] = thread]

mutex_unlock(s, b) == [s EXCEPT !.owner[b] = "none"]

RECURSIVE mutex_unlock_all(_, _)
mutex_unlock_all(s, guards) ==
    IF guards = <<>> THEN s
    ELSE mutex_unlock_all(mutex_unlock(s, guards[Len(guards)]), SubSeq(guards, 1, Len(guards) - 1))

lock_rest == <<cpu, dbg, timer_scanline, dt_cycles, lcd_pause, previous_pc, opcode,
               program_counter, events, pc>>

\* the arm of the bus function is entered and its guard taken
BusLock ==
    \E kind \in BusKinds, b \in Buffers :
        /\ shared.bus.at = "idle"
        /\ rounds < MaxAccesses
        /\ shared.owner[b] = "none"
        /\ shared' = [mutex_lock(shared, b, "emulator") EXCEPT
                        !.bus = [at |-> "locked", kind |-> kind, buffer |-> b,
                                 todo |-> bus_offsets(kind), val |-> <<>>]]
        /\ rounds' = rounds + 1
        /\ op' = Did(kind, <<b>>)
        /\ UNCHANGED <<lock_rest, game>>

\* one byte of the access: a store puts 0x11 + offset, a load takes the byte
BusByte ==
    /\ shared.bus.at = "locked"
    /\ shared.bus.todo # <<>>
    /\ LET b == shared.bus.buffer
           i == Head(shared.bus.todo)
       IN  shared' =
             IF shared.bus.kind \in {"write_u8", "write_u32"}
             THEN [shared EXCEPT !.data[b][i] = 17 + i, !.bus.todo = Tail(@)]
             ELSE [shared EXCEPT !.bus.val = Append(@, shared.data[b][i]),
                                 !.bus.todo = Tail(@)]
    /\ UNCHANGED <<lock_rest, game, rounds, op>>

\* the end of the arm: the guard is dropped
BusUnlock ==
    /\ shared.bus.at = "locked"
    /\ shared.bus.todo = <<>>
    /\ shared' = [mutex_unlock(shared, shared.bus.buffer) EXCEPT
                    !.bus = shared_new.bus]
    /\ UNCHANGED <<lock_rest, game, rounds, op>>

\* main.rs:363-394: the emulator thread sends a frame-ready message
FrameSend ==
    /\ shared.bus.at = "idle"
    /\ game.sent < MaxFrames
    /\ game' = game_send(game)
    /\ UNCHANGED <<lock_rest, shared, rounds, op>>

\* main.rs:150-151: try_recv finds a message; a paused window drops it
WinRecv ==
    \E paused \in BOOLEAN :
        /\ shared.win.at = "update"
        /\ game.channel # <<>>
        /\ game' = [game EXCEPT !.channel = Tail(@),
                                !.received = Append(@, Head(game.channel))]
        /\ shared' = [shared EXCEPT !.win.at = IF paused THEN "update" ELSE "lock",
                                    !.win.locks = <<>>, !.win.frame = <<>>]
        /\ UNCHANGED <<lock_rest, rounds, op>>

\* main.rs:155-157: the next argument of draw is evaluated
WinLock ==
    /\ shared.win.at = "lock"
    /\ Len(shared.win.locks) < Len(window_draw_locks)
    /\ LET b == window_draw_locks[Len(shared.win.locks) + 1]
       IN  /\ shared.owner[b] = "none"
           /\ shared' = [mutex_lock(shared, b, "window") EXCEPT
                            !.win.locks = Append(@, b)]
    /\ UNCHANGED <<lock_rest, game, rounds, op>>

\* game_window.rs:88-: draw begins with the backgrounds (video memory and
\* palette) ...
WinDrawBackground ==
    /\ shared.win.at = "lock"
    /\ Len(shared.win.locks) = Len(window_draw_locks)
    /\ shared' = [shared EXCEPT !.win.at = "sprites",
                                !.win.frame = <<shared.data["vram"], shared.data["palette"]>>]
    /\ UNCHANGED <<lock_rest, game, rounds, op>>

\* ... and goes on with the sprites (object memory, video memory, palette)
WinDrawSprites ==
    /\ shared.win.at = "sprites"
    /\ shared' = [shared EXCEPT !.win.at = "present",
                                !.win.frame = @ \o <<shared.data["oam"], shared.data["vram"],
                                                     shared.data["palette"]>>]
    /\ UNCHANGED <<lock_rest, game, rounds, op>>

\* main.rs:159: the statement ends and the guards are dropped
WinUnlock ==
    /\ shared.win.at = "present"
    /\ shared' = [mutex_unlock_all(shared, shared.win.locks) EXCEPT
                    !.win.at = "update", !.win.locks = <<>>]
    /\ UNCHANGED <<lock_rest, game, rounds, op>>

LockInit == Idle /\ cpu = reset(cpu_new)

LockNext ==
    \/ BusLock
    \/ BusByte
    \/ BusUnlock
    \/ FrameSend
    \/ WinRecv
    \/ WinLock
    \/ WinDrawBackground
    \/ WinDrawSprites
    \/ WinUnlock

SpecLock == LockInit /\ [][LockNext]_vars

\* the window thread is inside draw
Drawing ==
    \/ shared.win.at \in {"sprites", "present"}
    \/ shared.win.at = "lock" /\ Len(shared.win.locks) = Len(window_draw_locks)

\* C20: the emulator thread holds the mutex of the buffer for the whole of
\* every bus access to it, the window thread holds all three mutexes for
\* the whole of draw, the frame drawn shows the three buffers as they are,
\* and no step changes a byte of a buffer while draw is under way
C20_SharedBuffersExclusive ==
    /\ [](shared.bus.at = "locked" => shared.owner[shared.bus.buffer] = "emulator")
    /\ [](Drawing => \A b \in Buffers : shared.owner[b] = "window")
    /\ [](shared.win.at = "present" =>
            shared.win.frame = <<shared.data["vram"], shared.data["palette"],
                                 shared.data["oam"], shared.data["vram"],
                                 shared.data["palette"]>>)
    /\ [][Drawing => shared'.data = shared.data]_vars

\* draw is under way on buffers the emulator thread has written, and the
\* emulator thread has accesses left to make
C20_Witness ==
    /\ shared.win.at = "sprites"
    /\ \A b \in Buffers : shared.owner[b] = "window"
    /\ shared.data["vram"][0] = 17
    /\ shared.win.frame[1][0] = 17
    /\ shared.bus.at = "idle"
    /\ rounds < MaxAccesses

-----------------------------------------------------------------------------
(* Scanline interrupts in the emulator loop (main.rs:359-428).             *)

\* the gate of the loop has just run the trigger sequence for source irq
GateTriggered(irq) == op.name = "trigger_irq" /\ op.arg = <<irq, "gate">>

\* C21: the trigger sequence for the H-blank source runs only in the
\* iteration that enters the horizontal blank, the H-blank bit having been
\* clear when the iteration began (so at most once per scanline), and the
\* one for the V-blank source only in the iteration whose scanline advance
\* made the counter 160
C21_ScanlineIrqAtEntry ==
    /\ [][(pc = "hblank_irq" /\ op'.name = "trigger_irq") => ~HBlankBit(op.pre)]_vars
    /\ [](GateTriggered(IRQ_VBLANK) => get_vcount(op.pre.lcd) = 160)

-----------------------------------------------------------------------------
(* Return from the interrupt handler (cpu.rs:852-868, 2662-2695).          *)

\* the wide-form SUBS PC, LR, #4 that ends the handler
SubsPcLr4 == DataProcessing(14, TRUE, 2, TRUE, 14, 15, 4)

\* C22: when trigger_irq ran with the program counter at p and the handler
\* then executes the wide-form SUBS PC, LR, #4 in IRQ mode, the program
\* counter, the address of the next instruction fetched, is p again.
C22_ReturnResumes ==
    [][(/\ op.name = "trigger_irq"
        /\ op'.name = "execute"
        /\ op'.arg = <<SubsPcLr4>>)
            => cpu'.registers[15] = op.pre.registers[15]]_vars

-----------------------------------------------------------------------------
(* Arithmetic, logic and shifts in both encodings: execute is called on a  *)
(* CPU whose R0 and R1 (and R8, R9) hold chosen operands, with one         *)
(* instruction of the wide form or of compact formats 1 to 5.              *)

MaxAluCalls == 1

AluValues == {W(0, 0), W(0, 1), W(\h7FFF, \hFFFF), W(\h8000, 0), W(\hFFFF, \hFFFF)}

\* flags NZCV before the instruction: none, and C with V
AluFlags == {0, 3}

alu_setup(x, y, f, t) ==
    [cpu_at(Status(f, FALSE, t, MODE_SYSTEM), W(\h0800, \h0100), FALSE)
        EXCEPT !.registers[0] = x, !.registers[1] = y,
               !.registers[8] = x, !.registers[9] = y]

\* an instruction and what it stands for: its mnemonic, the registers of
\* its operands (y = 16 + n for the immediate n), its destination, and the
\* kind and encoded amount of the immediate shift applied to operand y
Insn(opc, name, form, x, y, rd, sh) ==
    [opc |-> opc, name |-> name, form |-> form, x |-> x, y |-> y, rd |-> rd, sh |-> sh]

AluNames == <<"AND", "EOR", "SUB", "RSB", "ADD", "ADC", "SBC", "RSC",
              "TST", "TEQ", "CMP", "CMN", "ORR", "MOV", "BIC", "MVN">>

NoShift == <<"LSL", 0>>

ShiftNames == <<"LSL", "LSR", "ASR", "ROR">>

\* wide form, S bit set, R2 := R0 op (R1 shifted), and R2 := R0 op #1
WideInsns ==
    {Insn(DataProcessing(14, FALSE, a, TRUE, 0, 2, s[2] * 128 + s[1] * 32 + 1),
          AluNames[a + 1], "wide", 0, 1, 2, <<ShiftNames[s[1] + 1], s[2]>>) :
        a \in 0..15, s \in {<<0, 0>>, <<1, 0>>, <<2, 0>>, <<1, 1>>, <<2, 31>>}}
    \cup {Insn(DataProcessing(14, TRUE, a, TRUE, 0, 2, 1),
               AluNames[a + 1], "wide", 0, 17, 2, NoShift) : a \in 0..15}

\* compact format 1: LSL, LSR, ASR R2, R1, #n
Format1Insns ==
    {Insn(W(0, s[1] * 2048 + s[2] * 64 + 1 * 8 + 2), ShiftNames[s[1] + 1], "format 1", 0, 1, 2,
          <<ShiftNames[s[1] + 1], s[2]>>) :
        s \in {<<0, 0>>, <<0, 1>>, <<1, 0>>, <<1, 1>>, <<2, 0>>, <<2, 31>>}}

\* compact format 2: ADD, SUB R2, R0, R1 and R2, R0, #1
Format2Insns ==
    {Insn(W(0, \h1800 + (IF i THEN \h400 ELSE 0) + (IF sub THEN \h200 ELSE 0)
                + 1 * 64 + 0 * 8 + 2),
          IF sub THEN "SUB" ELSE "ADD", "format 2", 0, IF i THEN 17 ELSE 1, 2, NoShift) :
        i \in BOOLEAN, sub \in BOOLEAN}

\* compact format 3: MOV, CMP, ADD, SUB R0, #n
Format3Insns ==
    {Insn(W(0, \h2000 + k * 2048 + 0 * 256 + n), <<"MOV", "CMP", "ADD", "SUB">>[k + 1],
          "format 3", 0, 16 + n, 0, NoShift) :
        k \in 0..3, n \in {0, 1, 255}}

CompactAluNames == <<"AND", "EOR", "LSL", "LSR", "ASR", "ADC", "SBC", "ROR",
                     "TST", "NEG", "CMP", "CMN", "ORR", "MUL", "BIC", "MVN">>

\* compact format 4: R0 := R0 op R1
Format4Insns ==
    {Insn(W(0, \h4000 + k * 64 + 1 * 8 + 0), CompactAluNames[k + 1], "format 4",
          0, 1, 0, NoShift) : k \in 0..15}

\* compact format 5: ADD, CMP, MOV R8, R9 and R0, R9, and BX R9
Format5Insns ==
    {Insn(W(0, \h4400 + k * 256 + (IF h1 THEN \h80 ELSE 0) + \h40 + 1 * 8 + 0),
          <<"ADD", "CMP", "MOV">>[k + 1], "format 5", IF h1 THEN 8 ELSE 0, 9,
          IF h1 THEN 8 ELSE 0, NoShift) : k \in 0..2, h1 \in BOOLEAN}
    \cup {Insn(W(0, \h4700 + \h40 + 1 * 8), "BX", "format 5", 0, 9, 15, NoShift)}

CompactInsns ==
    Format1Insns \cup Format2Insns \cup Format3Insns \cup Format4Insns \cup Format5Insns

\* execute(opcode) of an instruction in the encoding the CPU is in
ExecuteInsnCall ==
    \E i \in WideInsns \cup CompactInsns :
        /\ (i.form = "wide") = ~is_thumb(cpu)
        /\ CallUpTo(MaxAluCalls, execute(cpu, i.opc), "execute", <<i>>)

AluInit ==
    /\ cpu \in {alu_setup(x, y, f, t) :
                    x \in AluValues, y \in AluValues, f \in AluFlags, t \in BOOLEAN}
    /\ Idle

AluNext == ExecuteInsnCall

SpecAlu == AluInit /\ [][AluNext]_vars

\* the instruction just executed, and its operands as the registers held
\* them before
Executed == op.name = "execute" /\ ~cpu.unwound

OperandX == read_register(op.pre, op.arg[1].x)

OperandY ==
    IF op.arg[1].y >= 16 THEN U32(op.arg[1].y - 16) ELSE read_register(op.pre, op.arg[1].y)

\* the immediate shift of the instruction set: an encoded amount of 0 is
\* LSL by 0, and LSR and ASR by 32
ShiftedBy(kind, n, w) ==
    CASE kind = "LSL" -> Shl32(w, n)
      [] kind = "LSR" -> IF n = 0 THEN W(0, 0) ELSE Shr32(w, n)
      [] kind = "ASR" -> IF n = 0 THEN (IF Bit31(w) THEN W(\hFFFF, \hFFFF) ELSE W(0, 0))
                         ELSE Asr32(w, n)

\* operand y of a two-operand instruction, after its shift
Operand2 == ShiftedBy(op.arg[1].sh[1], op.arg[1].sh[2], OperandY)

\* x >= y, unsigned
Geq32(a, b) == a[1] > b[1] \/ (a[1] = b[1] /\ a[2] >= b[2])

\* C23: after every flag-setting subtraction or comparison (wide SUBS and
\* CMP, compact formats 2, 3 and 4 SUB and CMP, compact high-register CMP)
\* the carry flag is set exactly when no borrow occurred, x >= y unsigned.
C23_SubtractCarry ==
    (Executed /\ op.arg[1].name \in {"SUB", "CMP"})
        => (get_flag_c(cpu) <=> Geq32(OperandX, Operand2))

-----------------------------------------------------------------------------
(* The scanline timer against the cycle counter (main.rs:301-362).         *)

\* the cycles the CPU counted in the iteration that is about to advance the
\* timer: op holds the CPU from before the step
CyclesCounted == cpu.cycle_count - op.pre.cycle_count

\* C24: in every iteration of the scheduler the scanline timer advances
\* (modulo the 1232 cycles of a scanline) by exactly the amount by which the
\* cycle counter advanced in that iteration.
C24_TimerFollowsCycles ==
    [][(pc = "timer" /\ pc' # "timer")
        => (timer_scanline' - timer_scanline) % 1232 = CyclesCounted]_vars

-----------------------------------------------------------------------------
(* Flags after logical operations, additions and immediate shifts.         *)

LogicalNames == {"AND", "EOR", "TST", "TEQ", "ORR", "MOV", "BIC", "MVN"}

\* the instructions that update the flags: the wide form with the S bit and
\* compact formats 1 to 4 (format 5 updates them for CMP only)
FlagUpdating == {"wide", "format 1", "format 2", "format 3", "format 4"}

\* the result of a logical operation on x and (shifted) y
LogicalResult(name, x, y) ==
    CASE name \in {"AND", "TST"} -> And32(x, y)
      [] name \in {"EOR", "TEQ"} -> Xor32(x, y)
      [] name = "ORR" -> Or32(x, y)
      [] name = "MOV" -> y
      [] name = "BIC" -> And32(x, Not32(y))
      [] name = "MVN" -> Not32(y)

\* the carry out of the immediate shift of w, cin when nothing is shifted out
ShifterCarry(kind, n, w, cin) ==
    CASE kind = "LSL" -> IF n = 0 THEN cin ELSE BitAt(w, 32 - n)
      [] OTHER -> IF n = 0 THEN Bit31(w) ELSE BitAt(w, n - 1)

\* C25: after every logical operation with flag update, in either encoding,
\* N and Z describe the result, C is the carry out of the shifter (the old C
\* when nothing was shifted) and V keeps its value.
C25_LogicalFlags ==
    (Executed /\ op.arg[1].name \in LogicalNames /\ op.arg[1].form \in FlagUpdating)
        => /\ get_flag_n(cpu) = Bit31(LogicalResult(op.arg[1].name, OperandX, Operand2))
           /\ get_flag_z(cpu) = (LogicalResult(op.arg[1].name, OperandX, Operand2) = W(0, 0))
           /\ get_flag_c(cpu) = ShifterCarry(op.arg[1].sh[1], op.arg[1].sh[2], OperandY,
                                             get_flag_c(op.pre))
           /\ get_flag_v(cpu) = get_flag_v(op.pre)

\* C26: after every addition with flag update, in either encoding, V is set
\* exactly when x and y have the same sign bit and the sign bit of the
\* result differs from it (0xFFFFFFFF + 1 sets C and leaves V clear).
C26_AddOverflow ==
    (Executed /\ op.arg[1].name = "ADD" /\ op.arg[1].form \in FlagUpdating)
        => (get_flag_v(cpu) <=>
                (/\ Bit31(OperandX) = Bit31(Operand2)
                 /\ Bit31(Add32(OperandX, Operand2)) # Bit31(OperandX)))

\* C27: every immediate shift decode (operand 2 of the wide form and compact
\* format 1) takes LSR with encoded amount 0 as a shift by 32, result 0 and
\* C the old bit 31, and ASR of a negative value with encoded amount 0 as a
\* shift by 32, result 0xFFFFFFFF and C the old bit 31.
C27_ShiftByThirtyTwo ==
    (/\ Executed
     /\ op.arg[1].name \in {"MOV", "LSR", "ASR"}
     /\ op.arg[1].sh \in {<<"LSR", 0>>, <<"ASR", 0>>}
     /\ op.arg[1].sh[1] = "ASR" => Bit31(OperandY))
        => /\ read_register(cpu, op.arg[1].rd)
                = (IF op.arg[1].sh[1] = "LSR" THEN W(0, 0) ELSE W(\hFFFF, \hFFFF))
           /\ get_flag_c(cpu) = Bit31(OperandY)

-----------------------------------------------------------------------------
(* The two threads and the three mutexes, with requests that wait.  The    *)
(* emulator thread takes a guard in the arms of the bus functions           *)
(* (cpu.rs:117-119, 186-197, 333-350, 426-428, 585-605), three times in a   *)
(* row in syscall_register_ram_reset (cpu.rs:1152-1160) and for the length  *)
(* of a dump (main.rs:273-291); the window thread takes all three for draw  *)
(* (main.rs:152-158).  Neither thread counts its accesses here.             *)

\* the guards dropped when a statement of the emulator thread ends, kept
\* instead until the function returns
guards_dropped_at_return(held, rest) == IF rest = <<>> THEN held ELSE {}

\* the guards dropped when a statement of the emulator thread ends: every
\* guard is a temporary of its statement or a local of its match arm
guards_dropped(held, rest) == held

\* what the emulator thread may set out to do: the buffers it locks, in order
EmulatorJobs ==
    {<<kind, <<b>>>> : kind \in BusKinds, b \in Buffers}
        \cup {<<"Dump", <<b>>>> : b \in {"vram", "palette"}}
        \cup {<<"syscall_register_ram_reset", bs>> :
                bs \in {<<"palette", "vram", "oam">>, <<"vram", "oam">>, <<"oam">>}}

\* the bytes of buffer b after the statement that held its guard
statement_effect(kind, data) ==
    CASE kind \in {"write_u8"} -> [data EXCEPT ![0] = 17]
      [] kind \in {"write_u32"} -> [i \in 0..3 |-> 17 + i]
      [] kind = "syscall_register_ram_reset" -> [i \in 0..3 |-> 0]
      [] OTHER -> data

\* lock() is called: the thread waits for the mutex
EmuRequest ==
    \E job \in EmulatorJobs :
        /\ shared.bus.at = "idle"
        /\ shared' = [shared EXCEPT
                        !.bus = [at |-> "request", kind |-> job[1], buffer |-> Head(job[2]),
                                 todo |-> Tail(job[2]), val |-> <<>>]]
        /\ op' = Did(job[1], job[2])
        /\ UNCHANGED <<lock_rest, game, rounds>>

\* lock() returns the guard
EmuGrant ==
    /\ shared.bus.at = "request"
    /\ shared.owner[shared.bus.buffer] = "none"
    /\ shared' = [mutex_lock(shared, shared.bus.buffer, "emulator") EXCEPT
                    !.bus.at = "locked"]
    /\ UNCHANGED <<lock_rest, game, rounds, op>>

EmuHeld == {b \in Buffers : shared.owner[b] = "emulator"}

\* the statement ends: its effect on the buffer, the guards dropped, and the
\* next lock() of the function if there is one
EmuFinish ==
    /\ shared.bus.at = "locked"
    /\ shared' = [shared EXCEPT
                    !.data[shared.bus.buffer] = statement_effect(shared.bus.kind, @),
                    !.owner = [b \in Buffers |->
                                IF b \in guards_dropped(EmuHeld, shared.bus.todo)
                                THEN "none" ELSE shared.owner[b]],
                    !.bus = IF shared.bus.todo = <<>> THEN shared_new.bus
                            ELSE [@ EXCEPT !.at = "request", !.buffer = Head(shared.bus.todo),
                                           !.todo = Tail(shared.bus.todo)]]
    /\ UNCHANGED <<lock_rest, game, rounds, op>>

WaitNext ==
    \/ EmuRequest
    \/ EmuGrant
    \/ EmuFinish
    \/ FrameSend
    \/ WinRecv
    \/ WinLock
    \/ WinDrawBackground
    \/ WinDrawSprites
    \/ WinUnlock

\* a thread that can run does run, and a mutex that is free again and again
\* is at some time given to the thread that waits for it
WaitFairness ==
    /\ WF_vars(EmuFinish)
    /\ WF_vars(WinDrawBackground)
    /\ WF_vars(WinDrawSprites)
    /\ WF_vars(WinUnlock)
    /\ SF_vars(EmuGrant)
    /\ SF_vars(WinLock)

SpecWait == LockInit /\ [][WaitNext]_vars /\ WaitFairness

EmuWaits(b) == shared.bus.at = "request" /\ shared.bus.buffer = b

EmuHolds(b) == shared.bus.at = "locked" /\ shared.bus.buffer = b

\* the window thread waits for the k-th guard of draw
WinWaits(k) == shared.win.at = "lock" /\ Len(shared.win.locks) = k - 1

WinHolds(k) == shared.win.at # "update" /\ Len(shared.win.locks) >= k

-----------------------------------------------------------------------------
(* The cost of an instruction (cpu.rs:1604-1661; main.rs:329-361).         *)

\* C29: every instruction executed by execute, in either encoding, increases
\* the cycle counter by at least 1, the compact high-register ADD, CMP and
\* MOV included.
C29_EveryInstructionCosts ==
    Executed => cpu.cycle_count >= op.pre.cycle_count + 1

-----------------------------------------------------------------------------
(* Halfword stores in both encodings (cpu.rs:1741-1758, 1843-1863,         *)
(* 2849-2859): execute is called with STRH R0, [R1, ...] on a CPU whose R1  *)
(* points into a work RAM filled with non-zero bytes.                       *)

MaxStoreCalls == 1

\* word-aligned and halfword-aligned addresses in both work RAMs, and the
\* last word of the first one
StoreBases == {W(\h0300, \h0100), W(\h0300, \h0102), W(\h0200, \h0040), W(\h0203, \hFFFC)}

StoreValues == {W(\hDEAD, \hBEEF), W(\h1234, 0), W(0, \hFFFF)}

store_setup(base, val, ro, t) ==
    [cpu_at(Status(0, FALSE, t, MODE_SYSTEM), W(\h0800, \h0100), FALSE)
        EXCEPT !.registers[0] = val, !.registers[1] = base, !.registers[2] = U32(ro),
               !.ram_work2 = [i \in \hC0..\h13F |-> (i % 251) + 1],
               !.ram_work1 = [i \in (\h00..\h7F) \cup (\h3FFF0..\h3FFFF) |-> (i % 241) + 3]]

\* STRH R0, [R1, #n] of format 10 and of the wide form, STRH R0, [R1, R2] of
\* format 8: the opcode, its form and the immediate offset (-1: register R2)
StoreInsns ==
    {<<W(0, \h8008 + (n \div 2) * 64), "format 10", n>> : n \in {0, 2}}
        \cup {<<W(\hE1C1, \h00B0 + n), "wide", n>> : n \in {0, 2}}
        \cup {<<W(0, \h5288), "format 8", -1>>}

ExecuteStoreCall ==
    \E i \in StoreInsns :
        /\ (i[2] = "wide") = ~is_thumb(cpu)
        /\ CallUpTo(MaxStoreCalls, execute(cpu, i[1]), "execute", i)

StoreInit ==
    /\ cpu \in {store_setup(base, val, ro, t) :
                    base \in StoreBases, val \in StoreValues, ro \in {0, 2}, t \in BOOLEAN}
    /\ Idle

StoreNext == ExecuteStoreCall

SpecStore == StoreInit /\ [][StoreNext]_vars

\* the bus address the store is aimed at
StoreTarget ==
    mask_addr(Add32(read_register(op.pre, 1),
                    IF op.arg[3] = -1 THEN read_register(op.pre, 2) ELSE U32(op.arg[3])))

\* the byte of the work RAMs at bus address a
RamByte(c, a) ==
    IF a >= \h03000000 THEN load(c.ram_work2, a - \h03000000)
    ELSE load(c.ram_work1, a - \h02000000)

\* C30: a STRH of either encoding changes exactly the two bytes at its target
\* address, to the low 16 bits of the source register, and leaves every
\* other byte of memory as it was, the two bytes that follow included.
C30_StoreHalfword ==
    op.name = "execute"
        => /\ ~cpu.unwound
           /\ RamByte(cpu, StoreTarget) = read_register(op.pre, 0)[2] % 256
           /\ RamByte(cpu, StoreTarget + 1) = read_register(op.pre, 0)[2] \div 256
           /\ ChangedBytes(op.pre, cpu) \subseteq {StoreTarget, StoreTarget + 1}

====
